---- MODULE Spec2Model ----
(***************************************************************************)
(* State-machine model of the employee-wellbeing backend (Back/app):       *)
(* users, login lockout and notifications (crud.py, routers/users.py,      *)
(* dependencies.py), the mood diary (routers/diary.py), the cached group   *)
(* burnout analysis (routers/burnout_analyser.py), the AI chat             *)
(* (routers/ai.py), the news (routers/news.py) and the burnout tests       *)
(* (routers/burnout_test.py).                                              *)
(*                                                                         *)
(* Text is modelled as a sequence of symbols (one-character strings, or a  *)
(* fixed phrase kept as one symbol).  The Russian literals of the source   *)
(* are written in Latin transliteration.                                   *)
(***************************************************************************)
EXTENDS Naturals, Integers, Sequences, FiniteSets, Bags, TLC

VARIABLES users, notifications, response, mood_entries, today, burnout_tests,
          cache, llm_calls, chat_sessions, chat_messages, stream, news, requests

vars == <<users, notifications, response, mood_entries, today, burnout_tests,
          cache, llm_calls, chat_sessions, chat_messages, stream, news, requests>>

diaryVars == <<mood_entries, today>>
analysisVars == <<burnout_tests, cache, llm_calls>>
chatVars == <<chat_sessions, chat_messages, stream>>
contentVars == <<chatVars, news, requests>>

-----------------------------------------------------------------------------
(* Bounds of the model *)

MaxUsers == 2
MaxPayloadFields == 2
MaxDay == 2
MaxLlmCalls == 2
MaxSessions == 2
MaxChatMessages == 2
MaxChunks == 2
MaxNews == 2
MaxTests == 2
MaxStreakDay == 4
MaxMoodEntries == 4
MaxConcurrent == 2
MaxLoginRequests == 6
MaxGroupRequests == 3

-----------------------------------------------------------------------------
(* Text helpers *)

\* Python's None for an optional text column or request field
None == <<"None">>

\* Python truthiness of an optional string: None and "" are falsy
Falsy(s) == s = None \/ s = <<>>

\* "needle in haystack" for Python str: a contiguous occurrence
Contains(hay, needle) ==
    \E i \in 0..(Len(hay) - Len(needle)) :
        \A j \in 1..Len(needle) : hay[i + j] = needle[j]

WHITESPACE == {" "}

\* str.split(): the maximal runs of non-whitespace characters
RECURSIVE split_from(_, _, _)
split_from(s, cur, acc) ==
    IF s = <<>> THEN (IF cur = <<>> THEN acc ELSE Append(acc, cur))
    ELSE IF Head(s) \in WHITESPACE
         THEN split_from(Tail(s), <<>>, IF cur = <<>> THEN acc ELSE Append(acc, cur))
         ELSE split_from(Tail(s), Append(cur, Head(s)), acc)

split(s) == split_from(s, <<>>, <<>>)

\* the letters of the model's alphabet as <<lowercase, uppercase>> pairs;
\* cyr:x stands for a Cyrillic letter
LetterPairs == { <<"a", "A">>, <<"b", "B">>, <<"i", "I">>, <<"k", "K">>,
                 <<"l", "L">>, <<"n", "N">>, <<"o", "O">>, <<"t", "T">>,
                 <<"cyr:l", "cyr:L">>, <<"cyr:i", "cyr:I">>,
                 <<"cyr:a", "cyr:A">>, <<"cyr:n", "cyr:N">> }

islower(c) == \E p \in LetterPairs : p[1] = c
isupper(c) == \E p \in LetterPairs : p[2] = c

\* str.upper() and str.lower() letter by letter, as tables
UpperOf == [c \in {p[1] : p \in LetterPairs} |-> (CHOOSE p \in LetterPairs : p[1] = c)[2]]
LowerOf == [c \in {p[2] : p \in LetterPairs} |-> (CHOOSE p \in LetterPairs : p[2] = c)[1]]

upper_char(c) == IF c \in DOMAIN UpperOf THEN UpperOf[c] ELSE c
lower_char(c) == IF c \in DOMAIN LowerOf THEN LowerOf[c] ELSE c

upper(s) == [i \in 1..Len(s) |-> upper_char(s[i])]
lower(s) == [i \in 1..Len(s) |-> lower_char(s[i])]

\* translit(..., 'ru', reversed=True) maps a Cyrillic letter to its Latin
\* counterpart and leaves every other character as it is
CyrToLat == { <<"cyr:l", "l">>, <<"cyr:L", "L">>, <<"cyr:i", "i">>, <<"cyr:I", "I">>,
              <<"cyr:a", "a">>, <<"cyr:A", "A">>, <<"cyr:n", "n">>, <<"cyr:N", "N">> }

translit_char(c) ==
    IF \E p \in CyrToLat : p[1] = c THEN (CHOOSE p \in CyrToLat : p[1] = c)[2] ELSE c

translit(s) == [i \in 1..Len(s) |-> translit_char(s[i])]

-----------------------------------------------------------------------------
(* tasks.py: the corporate e-mail derived from the full name *)

generate_email_for_employee(full_name) ==
    LET name_parts == split(full_name)
        mail_generate ==
            IF Len(name_parts) >= 2
            THEN upper(translit(<<name_parts[2][1]>>)) \o <<".">>
                     \o lower(translit(name_parts[1]))
            ELSE lower(translit(full_name))
    IN mail_generate \o <<"@cdek.ru">>

-----------------------------------------------------------------------------
(* models.py / schemas.py: roles, the User row, the Notification row *)

ADMIN == <<"admin">>
MANAGER == <<"manager">>
USER == <<"user">>
UserRole == {ADMIN, MANAGER, USER}

\* a row of table users; its id is its index in the sequence users
\* (an autoincrement key; no operation deletes a user)
User(full_name, email_user, email_corporate, hashed_password, role, city, hierarchy_status, company) ==
    [ full_name |-> full_name, email_user |-> email_user,
      email_corporate |-> email_corporate, hashed_password |-> hashed_password,
      role |-> role, is_active |-> TRUE, login_attempts |-> 0,
      city |-> city, hierarchy_status |-> hierarchy_status, company |-> company ]

\* a row of table notifications; the table is a bag of rows, so that two
\* rows with the same user and text are two copies
Notification(user_id, message) == [user_id |-> user_id, message |-> message]

\* passlib: hash and verify (the salt is left out: verify is all that is observed)
pwd_hash(password) == <<"$2b$">> \o password
pwd_verify(password, hashed_password) == pwd_hash(password) = hashed_password

\* the columns of UserUpdate that the model carries, in declaration order
UserUpdateFields == <<"full_name", "email_user", "role", "city",
                      "hierarchy_status", "company">>

-----------------------------------------------------------------------------
(* crud.py *)

SPECIAL_CHARS == {"!", "@", "#", "$", "%", "^", "&", "*", "(", ")", "_", "-",
                  "+", "=", "No", ";", ":", "?"}

MinPasswordLen == 8
MaxPasswordLen == 40
MinLetters == 2
MaxLoginAttempts == 5

get_user_by_email(us, email) ==
    IF \E i \in DOMAIN us : us[i].email_corporate = email
    THEN CHOOSE i \in DOMAIN us :
             /\ us[i].email_corporate = email
             /\ \A j \in DOMAIN us : us[j].email_corporate = email => i <= j
    ELSE 0

password_check_first_name_only(password, full_name, weak_passwords) ==
    LET name_parts == split(full_name)
        has_special == \E i \in 1..Len(password) : password[i] \in SPECIAL_CHARS
        letters == Cardinality({i \in 1..Len(password) :
                                   isupper(password[i]) \/ islower(password[i])})
    IN  /\ MinPasswordLen <= Len(password) /\ Len(password) <= MaxPasswordLen
        /\ Len(name_parts) >= 1
        /\ ~ Contains(password, name_parts[1])
        /\ has_special
        /\ letters > MinLetters
        /\ password \notin weak_passwords

\* weak_passwords: the lines of top_passwords.txt, {} when the file is absent
password_check(password, full_name, weak_passwords) ==
    LET name_parts == split(full_name)
        first_name == name_parts[1]
        last_name == IF Len(name_parts) > 1 THEN name_parts[2] ELSE <<>>
        has_special == \E i \in 1..Len(password) : password[i] \in SPECIAL_CHARS
        upper_count == Cardinality({i \in 1..Len(password) : isupper(password[i])})
        lower_count == Cardinality({i \in 1..Len(password) : islower(password[i])})
    IN  /\ MinPasswordLen <= Len(password) /\ Len(password) <= MaxPasswordLen
        /\ Len(name_parts) >= 1
        /\ ~ (Contains(password, first_name)
                \/ (last_name # <<>> /\ Contains(password, last_name)))
        /\ has_special
        /\ ~ (upper_count + lower_count <= MinLetters)
        /\ password \notin weak_passwords

NOTIFY_FIELDS == {"full_name", "email_user", "city", "hierarchy_status"}

NotifyText(field) ==
    CASE field = "full_name" -> <<"Vashe imya obnovleno">>
      [] field = "email_user" -> <<"Vash lichnyj email obnovlyon">>
      [] field = "city" -> <<"Vash gorod obnovlyon">>
      [] field = "hierarchy_status" -> <<"Vash status v ierarhii obnovlyon">>

\* f"{NOTIFY_FIELDS[field]}: {value}"
UpdateMessage(field, value) == NotifyText(field) \o <<": ">> \o value

\* the phrase has_block_notification looks for with LIKE '%...%'
BlockPhrase == "zablokirovan iz-za neudachnyh popytok vhoda"

OwnBlockMessage == <<"Vash akkaunt ", BlockPhrase, ".">>

AdminBlockMessage(email_corporate) ==
    <<"Pol'zovatel' ">> \o email_corporate \o <<" ", BlockPhrase, ".">>

create_notification_unchecked(ns, user_id, message) ==
    ns (+) SetToBag({Notification(user_id, message)})

\* create_notification: the new table (unchanged when the row exists)
create_notification(ns, user_id, message) ==
    IF BagIn(Notification(user_id, message), ns)
    THEN ns
    ELSE ns (+) SetToBag({Notification(user_id, message)})

has_block_notification(ns, user_id) ==
    \E n \in BagToSet(ns) :
        /\ n.user_id = user_id
        /\ Contains(n.message, <<BlockPhrase>>)

violates_unique_never(us, uid, row) == FALSE

\* the unique indexes of table users (models.py): a flush of row uid as
\* `row` raises IntegrityError when another row holds the same e-mail
violates_unique(us, uid, row) ==
    \E j \in DOMAIN us :
        /\ j # uid
        /\ \/ us[j].email_user = row.email_user
           \/ us[j].email_corporate = row.email_corporate

\* the payload's fields in the order UserUpdate declares them
RECURSIVE fields_of(_, _)
fields_of(order, data) ==
    IF order = <<>> THEN <<>>
    ELSE (IF Head(order) \in DOMAIN data THEN <<Head(order)>> ELSE <<>>)
             \o fields_of(Tail(order), data)

\* the loop of update_user and its closing commit.  us, ns: what is committed;
\* row: the session's copy of the user row.  create_notification commits the
\* session when it inserts a row; a flush that violates a unique index raises,
\* and what was not committed is rolled back.
RECURSIVE update_loop(_, _, _, _, _, _)
update_loop(fields, data, uid, us, ns, row) ==
    IF fields = <<>>
    THEN IF violates_unique(us, uid, row)
         THEN [users |-> us, notifications |-> ns, ok |-> FALSE]
         ELSE [users |-> [us EXCEPT ![uid] = row], notifications |-> ns, ok |-> TRUE]
    ELSE LET field == Head(fields)
             value == data[field]
             row2 == [row EXCEPT ![field] = value]
         IN IF field \in NOTIFY_FIELDS
            THEN IF violates_unique(us, uid, row2)
                 THEN [users |-> us, notifications |-> ns, ok |-> FALSE]
                 ELSE LET ns2 == create_notification(ns, uid, UpdateMessage(field, value))
                      IN update_loop(Tail(fields), data, uid,
                                     IF ns2 = ns THEN us ELSE [us EXCEPT ![uid] = row2],
                                     ns2, row2)
            ELSE update_loop(Tail(fields), data, uid, us, ns, row2)

\* update_user: found = FALSE is the None result, ok = FALSE an IntegrityError
update_user(us, ns, user_id, user_update) ==
    IF user_id \notin DOMAIN us
    THEN [users |-> us, notifications |-> ns, ok |-> TRUE, found |-> FALSE]
    ELSE LET r == update_loop(fields_of(UserUpdateFields, user_update), user_update,
                              user_id, us, ns, us[user_id])
         IN [users |-> r.users, notifications |-> r.notifications,
             ok |-> r.ok, found |-> TRUE]

\* the loop over the admins in the lockout branch of authenticate_user
RECURSIVE notify_admins(_, _, _, _)
notify_admins(admins, us, ns, email_corporate) ==
    IF admins = {} THEN ns
    ELSE LET admin == CHOOSE a \in admins : \A b \in admins : a <= b
         IN notify_admins(admins \ {admin}, us,
                IF ~ has_block_notification(ns, admin)
                THEN create_notification(ns, admin, AdminBlockMessage(email_corporate))
                ELSE ns,
                email_corporate)

\* the lockout branch: what the notifications table becomes
block_notifications(us, ns, uid) ==
    IF ~ has_block_notification(ns, uid)
    THEN LET ns1 == create_notification(ns, uid, OwnBlockMessage)
         IN IF us[uid].role = ADMIN
            THEN notify_admins({a \in DOMAIN us : us[a].role = ADMIN}, us, ns1,
                               us[uid].email_corporate)
            ELSE ns1
    ELSE ns

too_many_attempts_late(login_attempts) == login_attempts > MaxLoginAttempts

\* the lockout test of authenticate_user
too_many_attempts(login_attempts) == login_attempts >= MaxLoginAttempts

\* authenticate_user: result is the id of the user returned, 0 for False
authenticate_user(us, ns, email, password) ==
    LET uid == get_user_by_email(us, email)
    IN IF uid = 0 \/ ~ us[uid].is_active
       THEN [users |-> us, notifications |-> ns, result |-> 0]
       ELSE IF ~ pwd_verify(password, us[uid].hashed_password)
            THEN LET attempts == us[uid].login_attempts + 1
                     blocked == too_many_attempts(attempts)
                     us1 == [us EXCEPT ![uid].login_attempts = attempts,
                                       ![uid].is_active = ~ blocked]
                 IN [users |-> us1,
                     notifications |-> IF blocked THEN block_notifications(us1, ns, uid)
                                       ELSE ns,
                     result |-> 0]
            ELSE [users |-> [us EXCEPT ![uid].login_attempts = 0],
                  notifications |-> ns, result |-> uid]

\* create_user: the row that is added
create_user(full_name, email_user, email_corporate, password, role, city, hierarchy_status, company) ==
    User(full_name, email_user, email_corporate, pwd_hash(password), role,
         city, hierarchy_status, company)

-----------------------------------------------------------------------------
(* dependencies.py: the guards.  A token is [valid, sub]: verify_token     *)
(* (app/auth.py) yields the subject e-mail of a valid token, else nothing.  *)

verify_token(token) == IF token.valid THEN token.sub ELSE None

get_current_user_any(us, token) ==
    IF verify_token(token) = None THEN 0
    ELSE get_user_by_email(us, verify_token(token))

\* get_current_user: the id of the caller, 0 for the 401 credentials_exception
get_current_user(us, token) ==
    LET token_data == verify_token(token)
        user == get_user_by_email(us, token_data)
    IN IF token_data = None THEN 0
       ELSE IF user = 0 \/ ~ us[user].is_active THEN 0
       ELSE user

\* get_admin_user: 0 when the guard lets the caller through, else the status
get_admin_user(us, token) ==
    LET current_user == get_current_user(us, token)
    IN IF current_user = 0 THEN 401
       ELSE IF us[current_user].role # ADMIN THEN 403
       ELSE 0

-----------------------------------------------------------------------------
(* routers/users.py: each endpoint as a function of the database and the  *)
(* request; status is the HTTP status of the reply                         *)

\* POST /users/
create_user_endpoint(us, token, full_name, email_user, password, role, weak_passwords) ==
    LET guard == get_admin_user(us, token)
        email_corporate == generate_email_for_employee(full_name)
        status ==
            IF guard # 0 THEN guard
            ELSE IF get_user_by_email(us, email_corporate) # 0 THEN 400
            ELSE IF ~ Falsy(email_user)
                      /\ \E i \in DOMAIN us : us[i].email_user = email_user
                 THEN 400
            ELSE IF ~ password_check(password, full_name, weak_passwords) THEN 403
            ELSE IF email_user = None THEN 500     \* NOT NULL column: IntegrityError
            ELSE 200
    IN [users |-> IF status = 200
                  THEN Append(us, create_user(full_name, email_user, email_corporate,
                                              password, role, None, None, None))
                  ELSE us,
        status |-> status,
        target |-> IF status = 200 THEN Len(us) + 1 ELSE 0]

\* PUT /users/me
update_user_me(us, ns, token, user_update) ==
    LET current_user == get_current_user(us, token)
        r == update_user(us, ns, current_user, user_update)
    IN IF current_user = 0
       THEN [users |-> us, notifications |-> ns, status |-> 401, target |-> 0]
       ELSE [users |-> r.users, notifications |-> r.notifications,
             status |-> IF r.ok THEN 200 ELSE 500, target |-> current_user]

\* PUT /users/{user_id}
update_user_endpoint(us, ns, token, user_id, user_update) ==
    LET guard == get_admin_user(us, token)
        r == update_user(us, ns, user_id, user_update)
    IN IF guard # 0
       THEN [users |-> us, notifications |-> ns, status |-> guard, target |-> 0]
       ELSE [users |-> r.users, notifications |-> r.notifications,
             status |-> IF ~ r.found THEN 404 ELSE IF r.ok THEN 200 ELSE 500,
             target |-> IF r.found THEN user_id ELSE 0]

-----------------------------------------------------------------------------
(* The inputs the model draws from *)

NameLiAn == <<"cyr:L", "cyr:i", " ", "cyr:A", "cyr:n">>
NameLiAl == <<"L", "i", " ", "A", "l">>
NameKoBo == <<"K", "o", " ", "B", "o">>
Names == {NameLiAn, NameLiAl, NameKoBo}

CorporateEmails == {generate_email_for_employee(n) : n \in Names}

PersonalEmails == {<<"p1@mail.ru">>, <<"p2@mail.ru">>}

GoodPassword == <<"K", "i", "b", "a", "l", "t", "!", "9">>
ShortPassword == <<"K", "i", "!", "9">>
OtherPassword == <<"N", "o", "t", "I", "t", "#", "1", "2">>

Tokens == {[valid |-> FALSE, sub |-> None]}
              \cup {[valid |-> TRUE, sub |-> e] : e \in CorporateEmails}

\* the update payloads with the given fields: functions from the fields that
\* are set (exclude_unset) to their values
FieldValues(field) ==
    CASE field = "full_name" -> {NameKoBo}
      [] field = "email_user" -> PersonalEmails
      [] field = "role" -> {ADMIN, USER}
      [] field = "city" -> {<<"Moskva">>, <<"Kazan'">>}
      [] field = "hierarchy_status" -> {<<"podchinennyj_", "1">>, <<"podchinennyj_", "2">>}
      [] field = "company" -> {<<"CDEK">>, <<"CDEK-IT">>}

Payloads(fields) ==
    UNION { {p \in [S -> UNION {FieldValues(f) : f \in S}] :
                 \A f \in S : p[f] \in FieldValues(f)} :
            S \in {T \in SUBSET fields : Cardinality(T) <= MaxPayloadFields} }

RolePayloads == Payloads({"role"})
ProfilePayloads == Payloads({"full_name", "email_user", "role"})

\* the last reply: the operation, its status (0 for a plain function call),
\* the id of the row it returned or changed (0 for none), what the request
\* carried (a login: e-mail and password; an update: the fields that were set)
\* and the number of notification rows the request inserted
Respond(op, status, target, arg, inserted) ==
    [op |-> op, status |-> status, target |-> target, arg |-> arg,
     inserted |-> inserted]

Inserted(ns_before, ns_after) == BagCardinality(ns_after) - BagCardinality(ns_before)

-----------------------------------------------------------------------------
(* The account operations *)

\* the login endpoint's call of crud.authenticate_user
Login(email, password) ==
    LET r == authenticate_user(users, notifications, email, password)
    IN /\ users' = r.users
       /\ notifications' = r.notifications
       /\ response' = Respond("authenticate_user", 0, r.result, <<email, password>>,
                              Inserted(notifications, r.notifications))
       /\ UNCHANGED <<diaryVars, analysisVars, contentVars>>

CreateUser(token, full_name, email_user, password, role, weak_passwords) ==
    LET r == create_user_endpoint(users, token, full_name, email_user, password, role,
                                  weak_passwords)
    IN /\ r.status = 200 => Len(users) < MaxUsers
       /\ users' = r.users
       /\ response' = Respond("create_user_endpoint", r.status, r.target, <<>>, 0)
       /\ UNCHANGED <<notifications, diaryVars, analysisVars, contentVars>>

UpdateMe(token, user_update) ==
    LET r == update_user_me(users, notifications, token, user_update)
    IN /\ users' = r.users
       /\ notifications' = r.notifications
       /\ response' = Respond("update_user_me", r.status, r.target, DOMAIN user_update,
                              Inserted(notifications, r.notifications))
       /\ UNCHANGED <<diaryVars, analysisVars, contentVars>>

UpdateUser(token, user_id, user_update) ==
    LET r == update_user_endpoint(users, notifications, token, user_id, user_update)
    IN /\ users' = r.users
       /\ notifications' = r.notifications
       /\ response' = Respond("update_user_endpoint", r.status, r.target,
                              DOMAIN user_update,
                              Inserted(notifications, r.notifications))
       /\ UNCHANGED <<diaryVars, analysisVars, contentVars>>

-----------------------------------------------------------------------------
(* Spec: logins and lockouts.  One seeded administrator, then any sequence *)
(* of logins, user creations and role updates.                             *)

SeedAdmin ==
    create_user(NameLiAn, <<"p1@mail.ru">>, generate_email_for_employee(NameLiAn),
                GoodPassword, ADMIN, None, None, None)

NoResponse == Respond("none", 0, 0, <<>>, 0)

\* the response stream of the chat turn in progress: pc is the position of
\* the generator, events what it has yielded so far
NoStream ==
    [pc |-> "idle", session_id |-> 0, user_id |-> 0, assistant_response |-> <<>>,
     events |-> <<>>, failed |-> FALSE, save_error |-> FALSE]

\* no chat session, no chat message, no response stream, no news, no request
\* in flight
InitContent ==
    /\ chat_sessions = <<>>
    /\ chat_messages = <<>>
    /\ stream = NoStream
    /\ news = <<>>
    /\ requests = <<>>

Init ==
    /\ users = <<SeedAdmin>>
    /\ notifications = EmptyBag
    /\ response = NoResponse
    /\ mood_entries = EmptyBag
    /\ today = 1
    /\ burnout_tests = <<>>
    /\ cache = <<>>
    /\ llm_calls = 0
    /\ InitContent

DoLogin ==
    \E email \in CorporateEmails, password \in {GoodPassword, OtherPassword} :
        Login(email, password)

DoCreateUser ==
    \E token \in Tokens, full_name \in {NameLiAl, NameKoBo},
       email_user \in PersonalEmails \cup {None},
       password \in {GoodPassword, ShortPassword}, role \in {ADMIN, USER} :
        CreateUser(token, full_name, email_user, password, role, {})

DoUpdateRoleMe ==
    \E token \in Tokens, user_update \in RolePayloads :
        UpdateMe(token, user_update)

DoUpdateRole ==
    \E token \in Tokens, user_id \in 1..(Len(users) + 1), user_update \in RolePayloads :
        UpdateUser(token, user_id, user_update)

Next == DoLogin \/ DoCreateUser \/ DoUpdateRoleMe \/ DoUpdateRole

Spec == Init /\ [][Next]_vars

LoginPasswords == {GoodPassword, OtherPassword}

\* C1 (as claimed): an account that has suffered 5 consecutive failed
\* authentications is deactivated and holds exactly one notification of its
\* own lockout, whatever else it held before and whatever follows.
C1_ExactlyOneLockoutNotification ==
    \A u \in DOMAIN users :
        users[u].login_attempts >= MaxLoginAttempts
            => /\ ~ users[u].is_active
               /\ CopiesIn(Notification(u, OwnBlockMessage), notifications) = 1

\* C2 (as claimed): when a login step locks out an administrator, every other
\* administrator then holds exactly one notification naming the locked
\* administrator's corporate e-mail.
C2_AdminLockoutStep ==
    \A u \in DOMAIN users :
        (/\ response'.op = "authenticate_user"
         /\ users[u].is_active /\ ~ users'[u].is_active
         /\ users[u].role = ADMIN)
        => \A v \in DOMAIN users :
               (v # u /\ users[v].role = ADMIN)
               => CopiesIn(Notification(v, AdminBlockMessage(users[u].email_corporate)),
                           notifications') = 1

C2_EveryOtherAdminNotified == [][C2_AdminLockoutStep]_vars

\* C4: an inactive account cannot authenticate.  In every reachable state,
\* authenticate_user on an inactive account returns False and leaves users and
\* notifications as they are, whatever the password; and get_current_user
\* answers 401 to a valid token whose subject is no user or an inactive one.
C4_InactiveCannotAuthenticate ==
    /\ \A email \in CorporateEmails, password \in LoginPasswords :
           LET uid == get_user_by_email(users, email)
               r == authenticate_user(users, notifications, email, password)
           IN (uid # 0 /\ ~ users[uid].is_active)
              => /\ r.result = 0
                 /\ r.users = users
                 /\ r.notifications = notifications
    /\ \A token \in Tokens :
           (\A u \in DOMAIN users :
                users[u].email_corporate = token.sub => ~ users[u].is_active)
           => get_current_user(users, token) = 0

\* a correct-password login has just been refused on a locked account
C4_Witness ==
    /\ response.op = "authenticate_user"
    /\ response.target = 0
    /\ response.arg[2] = GoodPassword
    /\ \E u \in DOMAIN users :
           /\ users[u].email_corporate = response.arg[1]
           /\ ~ users[u].is_active
           /\ pwd_verify(GoodPassword, users[u].hashed_password)

\* C5: on an active account a correct password resets the counter to 0 and
\* returns the user; a wrong one adds exactly 1 to the counter and deactivates
\* the account exactly when the counter reaches 5.  So an active account has a
\* counter below 5 and a deactivated one has had 5 failures in a row.
C5_CounterAndLockout ==
    /\ \A u \in DOMAIN users :
           /\ users[u].is_active => users[u].login_attempts < MaxLoginAttempts
           /\ ~ users[u].is_active => users[u].login_attempts = MaxLoginAttempts
    /\ \A email \in CorporateEmails, password \in LoginPasswords :
           LET uid == get_user_by_email(users, email)
               r == authenticate_user(users, notifications, email, password)
           IN (uid # 0 /\ users[uid].is_active)
              => /\ \A v \in DOMAIN users : v # uid => r.users[v] = users[v]
                 /\ IF pwd_verify(password, users[uid].hashed_password)
                    THEN /\ r.result = uid
                         /\ r.users[uid] = [users[uid] EXCEPT !.login_attempts = 0]
                    ELSE /\ r.result = 0
                         /\ r.users[uid].login_attempts = users[uid].login_attempts + 1
                         /\ r.users[uid].is_active
                                = (users[uid].login_attempts + 1 # MaxLoginAttempts)

\* a fifth failed login has just locked one account while another account
\* with failures on its counter is still active
C5_Witness ==
    /\ response.op = "authenticate_user"
    /\ response.arg[2] = OtherPassword
    /\ \E u, v \in DOMAIN users :
           /\ users[u].email_corporate = response.arg[1]
           /\ ~ users[u].is_active
           /\ users[u].login_attempts = MaxLoginAttempts
           /\ users[v].is_active
           /\ users[v].login_attempts = MaxLoginAttempts - 1

-----------------------------------------------------------------------------
(* SpecProfile: user creation and profile updates, without logins *)

DoUpdateMe ==
    \E token \in Tokens, user_update \in ProfilePayloads :
        UpdateMe(token, user_update)

DoUpdateUser ==
    \E token \in Tokens, user_id \in 1..(Len(users) + 1), user_update \in ProfilePayloads :
        UpdateUser(token, user_id, user_update)

NextProfile == DoCreateUser \/ DoUpdateMe \/ DoUpdateUser

SpecProfile == Init /\ [][NextProfile]_vars

\* C3 (as claimed): a non-admin caller never changes a role.  Every step that
\* changes a user's role is an update by id, which the admin guard protects,
\* or is made by a caller who is an administrator.
C3_RoleChangeStep ==
    \A u \in DOMAIN users :
        users'[u].role # users[u].role
            => \/ response'.op = "update_user_endpoint"
               \/ users[u].role = ADMIN

C3_NonAdminNeverChangesRole == [][C3_RoleChangeStep]_vars

\* the texts a notification can carry
AllMessages ==
    {OwnBlockMessage}
        \cup {AdminBlockMessage(e) : e \in CorporateEmails}
        \cup UNION {{UpdateMessage(f, v) : v \in FieldValues(f)} : f \in NOTIFY_FIELDS}

\* C6: there is at most one notification row per (user id, message text).
\* create_notification for a pair that has a row adds nothing and changes
\* nothing; for a pair without a row it adds exactly one row of that pair and
\* leaves every other row as it is.
C6_OneRowPerUserAndMessage ==
    /\ \A n \in BagToSet(notifications) : CopiesIn(n, notifications) = 1
    /\ \A u \in 1..MaxUsers, message \in AllMessages :
           LET n == Notification(u, message)
               r == create_notification(notifications, u, message)
           IN IF BagIn(n, notifications)
              THEN r = notifications
              ELSE /\ BagCardinality(r) = BagCardinality(notifications) + 1
                   /\ CopiesIn(n, r) = 1
                   /\ \A k \in BagToSet(notifications) :
                          CopiesIn(k, r) = CopiesIn(k, notifications)

\* an update that set exactly one notifiable field has succeeded without
\* inserting a row: the user already held that very notification
C6_Witness ==
    /\ response.op = "update_user_me"
    /\ response.status = 200
    /\ response.arg = {"email_user"}
    /\ response.inserted = 0
    /\ CopiesIn(Notification(response.target,
                             UpdateMessage("email_user",
                                           users[response.target].email_user)),
                notifications) = 1

NoDuplicateEmails(us) ==
    \A i, j \in DOMAIN us :
        i # j => /\ us[i].email_user # us[j].email_user
                 /\ us[i].email_corporate # us[j].email_corporate

\* C7: no two users share a personal e-mail or a corporate e-mail.  An
\* administrator's creation of a user whose generated corporate e-mail or
\* supplied personal e-mail is taken is answered 400 and adds no row, a
\* creation that is accepted keeps the e-mails distinct, and (the invariant,
\* over every update step) no update makes two personal e-mails equal.
C7_EmailsUnique ==
    /\ NoDuplicateEmails(users)
    /\ \A token \in Tokens, full_name \in Names, email_user \in PersonalEmails,
          password \in {GoodPassword, ShortPassword} :
           LET r == create_user_endpoint(users, token, full_name, email_user,
                                         password, USER, {})
               taken ==
                   \E i \in DOMAIN users :
                       \/ users[i].email_corporate = generate_email_for_employee(full_name)
                       \/ users[i].email_user = email_user
           IN /\ (get_admin_user(users, token) = 0 /\ taken)
                    => (r.status = 400 /\ r.users = users)
              /\ r.status # 200 => r.users = users
              /\ NoDuplicateEmails(r.users)

\* an update that set the personal e-mail of one of two users has just been
\* refused by the unique index
C7_Witness ==
    /\ response.op \in {"update_user_me", "update_user_endpoint"}
    /\ response.status = 500
    /\ "email_user" \in response.arg
    /\ Len(users) = 2

-----------------------------------------------------------------------------
(* The mood diary: crud.create_mood_entry and POST /diary/entries.          *)
(* A date is a day number; mood_entries is the bag of rows of mood_entries. *)

MoodEntry(user_id, date, mood, comment) ==
    [user_id |-> user_id, date |-> date, mood |-> mood, comment |-> comment]

\* the request carries no date
NoDate == 0

has_mood_entry(entries, user_id, entry_date) ==
    \E e \in BagToSet(entries) : e.user_id = user_id /\ e.date = entry_date

create_mood_entry_unchecked(entries, user_id, entry_date, mood, comment) ==
    [entries |-> entries (+) SetToBag({MoodEntry(user_id, entry_date, mood, comment)}),
     status |-> 200]

\* create_mood_entry: status 400 is the HTTPException of the duplicate.  The
\* table also carries UniqueConstraint(user_id, date); a request that passed
\* the query above never meets it.
create_mood_entry(entries, user_id, entry_date, mood, comment) ==
    IF has_mood_entry(entries, user_id, entry_date)
    THEN [entries |-> entries, status |-> 400]
    ELSE [entries |-> entries (+) SetToBag({MoodEntry(user_id, entry_date, mood, comment)}),
          status |-> 200]

\* POST /diary/entries
create_entry(us, entries, day, token, date, mood, comment) ==
    LET current_user == get_current_user(us, token)
        entry_date == IF date = NoDate THEN day ELSE date
    IN IF current_user = 0
       THEN [entries |-> entries, status |-> 401]
       ELSE create_mood_entry(entries, current_user, entry_date, mood, comment)

\* what a diary request carries as mood and comment
MoodInputs == {<<1, None>>, <<5, <<"ok">>>>}
DateInputs == {NoDate} \cup 1..MaxDay

CreateEntry(token, date, mood, comment) ==
    LET r == create_entry(users, mood_entries, today, token, date, mood, comment)
    IN /\ mood_entries' = r.entries
       /\ response' = Respond("create_entry", r.status, get_current_user(users, token),
                              <<IF date = NoDate THEN today ELSE date>>, 0)
       /\ UNCHANGED <<users, notifications, today, analysisVars, contentVars>>

\* the calendar: date.today() moves on
NextDay ==
    /\ today < MaxDay
    /\ today' = today + 1
    /\ UNCHANGED <<users, notifications, response, mood_entries, analysisVars, contentVars>>

SecondUser ==
    create_user(NameKoBo, <<"p2@mail.ru">>, generate_email_for_employee(NameKoBo),
                GoodPassword, USER, None, None, None)

InitDiary ==
    /\ users = <<SeedAdmin, SecondUser>>
    /\ notifications = EmptyBag
    /\ response = NoResponse
    /\ mood_entries = EmptyBag
    /\ today = 1
    /\ burnout_tests = <<>>
    /\ cache = <<>>
    /\ llm_calls = 0
    /\ InitContent

DoCreateEntry ==
    \E token \in Tokens, date \in DateInputs, m \in MoodInputs :
        CreateEntry(token, date, m[1], m[2])

NextDiary == DoCreateEntry \/ NextDay

SpecDiary == InitDiary /\ [][NextDiary]_vars

\* C8: at most one mood entry exists per (user, date).  A creation for a
\* (user, date) that has an entry is answered 400 and leaves the table, so the
\* entry's mood and comment, as it is; a creation for a date the caller has no
\* entry on, whatever other users have on it, is accepted and adds that row.
C8_OneEntryPerUserAndDate ==
    /\ \A e \in BagToSet(mood_entries) :
           /\ CopiesIn(e, mood_entries) = 1
           /\ \A f \in BagToSet(mood_entries) :
                  (f.user_id = e.user_id /\ f.date = e.date) => f = e
    /\ \A token \in Tokens, date \in DateInputs, m \in MoodInputs :
           LET caller == get_current_user(users, token)
               entry_date == IF date = NoDate THEN today ELSE date
               r == create_entry(users, mood_entries, today, token, date, m[1], m[2])
               e == MoodEntry(caller, entry_date, m[1], m[2])
           IN caller # 0
              => IF \E f \in BagToSet(mood_entries) :
                        f.user_id = caller /\ f.date = entry_date
                 THEN r.status = 400 /\ r.entries = mood_entries
                 ELSE /\ r.status = 200
                      /\ CopiesIn(e, r.entries) = 1
                      /\ BagCardinality(r.entries) = BagCardinality(mood_entries) + 1
                      /\ \A f \in BagToSet(mood_entries) :
                             CopiesIn(f, r.entries) = CopiesIn(f, mood_entries)

\* a second creation for a (user, date) has just been refused with 400 while
\* another user holds an entry on that same date
C8_Witness ==
    /\ response.op = "create_entry"
    /\ response.status = 400
    /\ \E e, f \in BagToSet(mood_entries) :
           /\ e.user_id = response.target /\ e.date = response.arg[1]
           /\ f.user_id # response.target /\ f.date = response.arg[1]

-----------------------------------------------------------------------------
(* The burnout analysis: routers/burnout_analyser.py over                   *)
(* services/burnout_analyzer.py.  The LLM is an input of each request: it   *)
(* answers ("ok"), raises ("fail") or answers what cannot be parsed         *)
(* ("garbage").                                                             *)

BurnoutTestResult(user_id, total_score) ==
    [user_id |-> user_id, total_score |-> total_score,
     comment_work |-> None, comment_factors |-> None]

DigitChars == <<"0", "1", "2", "3", "4", "5", "6", "7", "8", "9">>

\* str(n) of a natural number
RECURSIVE str_int(_)
str_int(n) ==
    IF n < Len(DigitChars) THEN <<DigitChars[n + 1]>>
    ELSE str_int(n \div Len(DigitChars)) \o <<DigitChars[(n % Len(DigitChars)) + 1]>>

\* f"podchinennyj_{current_user.id}"
SubordinateOf(manager_id) == <<"podchinennyj_">> \o str_int(manager_id)

\* column ILIKE '%pattern%': a NULL column matches nothing
ilike(value, pattern) == value # None /\ Contains(lower(value), lower(pattern))

make_cache_key(company, city) ==
    << IF Falsy(company) THEN <<>> ELSE company, IF Falsy(city) THEN <<>> ELSE city >>

\* collect_group_data: the ids of the employees of the group
collect_group_data(us, company, city) ==
    {i \in DOMAIN us :
        /\ us[i].is_active
        /\ IF ~ Falsy(company) THEN ilike(us[i].company, company)
                               ELSE ilike(us[i].city, city)}

has_burnout_tests(tests, user_id) == \E t \in DOMAIN tests : tests[t].user_id = user_id

\* generate_group_burnout_analysis.  raised names the exception that leaves it
\* ("none" when it returns); analysis_date is the time of the computation,
\* here the number of the LLM call that produced it.
generate_group_burnout_analysis(us, tests, company, city, llm, calls) ==
    LET employees == collect_group_data(us, company, city)
    IN IF employees = {}
       THEN [raised |-> "ValueError", llm_called |-> FALSE, analysis |-> <<>>]
       ELSE IF llm = "fail"
       THEN [raised |-> "Exception", llm_called |-> TRUE, analysis |-> <<>>]
       ELSE IF llm = "garbage"
       THEN [raised |-> "ValueError", llm_called |-> TRUE, analysis |-> <<>>]
       ELSE [raised |-> "none", llm_called |-> TRUE,
             analysis |->
                 [filter_type |-> IF ~ Falsy(company) THEN "company" ELSE "city",
                  filter_value |-> IF ~ Falsy(company) THEN company ELSE city,
                  employees |-> employees,
                  employees_with_tests |->
                      {i \in employees : has_burnout_tests(tests, i)},
                  analysis_date |-> calls + 1]]

\* generate_burnout_recommendations
generate_burnout_recommendations(us, tests, user_id, llm) ==
    IF user_id \notin DOMAIN us
    THEN [raised |-> "ValueError", llm_called |-> FALSE]
    ELSE IF ~ has_burnout_tests(tests, user_id)
    THEN [raised |-> "none", llm_called |-> FALSE]
    ELSE IF llm = "fail" THEN [raised |-> "Exception", llm_called |-> TRUE]
    ELSE IF llm = "garbage" THEN [raised |-> "ValueError", llm_called |-> TRUE]
    ELSE [raised |-> "none", llm_called |-> TRUE]

\* get_manager_or_admin: 0 when the guard lets the caller through
get_manager_or_admin(us, token) ==
    LET current_user == get_current_user(us, token)
    IN IF current_user = 0 THEN 401
       ELSE IF us[current_user].role \notin {ADMIN, MANAGER} THEN 403
       ELSE 0

\* the except clauses of both endpoints: the status of the reply when the
\* try block raised.  An HTTPException raised inside the try block is an
\* Exception and not a ValueError.
except_status(raised) ==
    IF raised = "none" THEN 200
    ELSE IF raised = "ValueError" THEN 404
    ELSE 500

cache_hit_ignoring_force(ch, cache_key, force_refresh) == cache_key \in DOMAIN ch

\* line 161: the cached entry is served
cache_hit(ch, cache_key, force_refresh) == cache_key \in DOMAIN ch /\ ~ force_refresh

cache_put_if_absent(ch, cache_key, analysis) ==
    [k \in DOMAIN ch \cup {cache_key} |-> IF k \in DOMAIN ch THEN ch[k] ELSE analysis]

\* line 169: _group_analysis_cache[cache_key] = analysis
cache_put(ch, cache_key, analysis) ==
    [k \in DOMAIN ch \cup {cache_key} |-> IF k = cache_key THEN analysis ELSE ch[k]]

\* POST /ai/analysis/analyze/{user_id}
analyze_user_burnout(us, tests, token, user_id, llm) ==
    LET guard == get_manager_or_admin(us, token)
        current_user == get_current_user(us, token)
        g == generate_burnout_recommendations(us, tests, user_id, llm)
    IN IF guard # 0 THEN [status |-> guard, llm_called |-> FALSE]
       ELSE IF /\ us[current_user].role = MANAGER
               /\ \/ user_id \notin DOMAIN us
                  \/ us[user_id].hierarchy_status # SubordinateOf(current_user)
       THEN [status |-> except_status("HTTPException"), llm_called |-> FALSE]
       ELSE [status |-> except_status(g.raised), llm_called |-> g.llm_called]

analyze_group_burnout_evicting(us, tests, ch, calls, token, company, city, force_refresh, llm) ==
    LET guard == get_manager_or_admin(us, token)
        current_user == get_current_user(us, token)
        cache_key == make_cache_key(company, city)
        g == generate_group_burnout_analysis(us, tests, company, city, llm, calls)
        refused == [cache |-> ch, status |-> except_status("HTTPException"),
                    body |-> <<>>, llm_called |-> FALSE]
    IN IF guard # 0
       THEN [cache |-> ch, status |-> guard, body |-> <<>>, llm_called |-> FALSE]
       ELSE IF Falsy(company) /\ Falsy(city) THEN refused
       ELSE IF /\ us[current_user].role = MANAGER
               /\ ~ Falsy(company) /\ company # us[current_user].company
       THEN refused
       ELSE IF /\ us[current_user].role = MANAGER
               /\ ~ Falsy(city) /\ city # us[current_user].city
       THEN refused
       ELSE IF cache_hit(ch, cache_key, force_refresh)
       THEN [cache |-> ch, status |-> 200, body |-> ch[cache_key], llm_called |-> FALSE]
       ELSE IF g.raised # "none"
       THEN [cache |-> [k \in DOMAIN ch \ {cache_key} |-> ch[k]],
             status |-> except_status(g.raised), body |-> <<>>,
             llm_called |-> g.llm_called]
       ELSE [cache |-> cache_put(ch, cache_key, g.analysis), status |-> 200,
             body |-> g.analysis, llm_called |-> TRUE]

\* POST /ai/analysis/group-analysis
analyze_group_burnout(us, tests, ch, calls, token, company, city, force_refresh, llm) ==
    LET guard == get_manager_or_admin(us, token)
        current_user == get_current_user(us, token)
        cache_key == make_cache_key(company, city)
        g == generate_group_burnout_analysis(us, tests, company, city, llm, calls)
        refused == [cache |-> ch, status |-> except_status("HTTPException"),
                    body |-> <<>>, llm_called |-> FALSE]
    IN IF guard # 0
       THEN [cache |-> ch, status |-> guard, body |-> <<>>, llm_called |-> FALSE]
       ELSE IF Falsy(company) /\ Falsy(city) THEN refused
       ELSE IF /\ us[current_user].role = MANAGER
               /\ ~ Falsy(company) /\ company # us[current_user].company
       THEN refused
       ELSE IF /\ us[current_user].role = MANAGER
               /\ ~ Falsy(city) /\ city # us[current_user].city
       THEN refused
       ELSE IF cache_hit(ch, cache_key, force_refresh)
       THEN [cache |-> ch, status |-> 200, body |-> ch[cache_key], llm_called |-> FALSE]
       ELSE IF g.raised # "none"
       THEN [cache |-> ch, status |-> except_status(g.raised), body |-> <<>>,
             llm_called |-> g.llm_called]
       ELSE [cache |-> cache_put(ch, cache_key, g.analysis), status |-> 200,
             body |-> g.analysis, llm_called |-> TRUE]

-----------------------------------------------------------------------------
(* The analysis requests *)

NameTaNo == <<"T", "a", " ", "N", "o">>
NameSaRa == <<"S", "a", " ", "R", "a">>

CompanyKIT == <<"K", "I", "T">>
CompanyKitLab == <<"K", "i", "t", "-", "L", "a", "b">>
CompanyBank == <<"B", "a", "n", "k">>
CityOb == <<"O", "b">>
CityKin == <<"K", "i", "n">>

AdminId == 1
ManagerId == 2

\* an administrator, a manager of KIT in Ob, the manager's subordinate, and an
\* employee of another company whose status names another manager
AnalysisUsers ==
    << SeedAdmin,
       create_user(NameKoBo, <<"p2@mail.ru">>, generate_email_for_employee(NameKoBo),
                   GoodPassword, MANAGER, CityOb, None, CompanyKIT),
       create_user(NameSaRa, <<"p3@mail.ru">>, generate_email_for_employee(NameSaRa),
                   GoodPassword, USER, CityOb, SubordinateOf(ManagerId), CompanyKIT),
       create_user(NameTaNo, <<"p4@mail.ru">>, generate_email_for_employee(NameTaNo),
                   GoodPassword, USER, CityKin, SubordinateOf(22), CompanyKitLab) >>

TokenOf(us, user_id) == [valid |-> TRUE, sub |-> us[user_id].email_corporate]

\* the callers: the administrator, the manager and the manager's subordinate
AnalysisTokens == {TokenOf(AnalysisUsers, i) : i \in 1..3}

RequestCompanies == {None, CompanyKIT, CompanyKitLab}
RequestCities == {<<>>, CityOb}
LlmOutcomes == {"ok", "fail", "garbage"}

AnalyzeGroup(token, company, city, force_refresh, llm) ==
    LET r == analyze_group_burnout(users, burnout_tests, cache, llm_calls, token,
                                   company, city, force_refresh, llm)
    IN /\ r.llm_called => llm_calls < MaxLlmCalls
       /\ cache' = r.cache
       /\ llm_calls' = IF r.llm_called THEN llm_calls + 1 ELSE llm_calls
       /\ response' = Respond("analyze_group_burnout", r.status, 0,
                              [caller |-> get_current_user(users, token),
                               company |-> company, city |-> city,
                               force_refresh |-> force_refresh,
                               llm_called |-> r.llm_called, body |-> r.body], 0)
       /\ UNCHANGED <<users, notifications, diaryVars, burnout_tests, contentVars>>

AnalyzeUser(token, user_id, llm) ==
    LET r == analyze_user_burnout(users, burnout_tests, token, user_id, llm)
    IN /\ r.llm_called => llm_calls < MaxLlmCalls
       /\ llm_calls' = IF r.llm_called THEN llm_calls + 1 ELSE llm_calls
       /\ response' = Respond("analyze_user_burnout", r.status, user_id,
                              [caller |-> get_current_user(users, token),
                               llm_called |-> r.llm_called], 0)
       /\ UNCHANGED <<users, notifications, diaryVars, burnout_tests, cache, contentVars>>

InitAnalysis ==
    /\ users = AnalysisUsers
    /\ notifications = EmptyBag
    /\ response = NoResponse
    /\ mood_entries = EmptyBag
    /\ today = 1
    /\ burnout_tests = <<BurnoutTestResult(3, 45)>>
    /\ cache = <<>>
    /\ llm_calls = 0
    /\ InitContent

\* the outcomes of the LLM that a request can meet: a request that does not
\* reach the LLM meets none of its failures
GroupLlmOutcomes(token, company, city, force_refresh) ==
    IF analyze_group_burnout(users, burnout_tests, cache, llm_calls, token, company,
                             city, force_refresh, "ok").llm_called
    THEN LlmOutcomes ELSE {"ok"}

UserLlmOutcomes(token, user_id) ==
    IF analyze_user_burnout(users, burnout_tests, token, user_id, "ok").llm_called
    THEN LlmOutcomes ELSE {"ok"}

DoAnalyzeGroup ==
    \E token \in AnalysisTokens, company \in RequestCompanies, city \in RequestCities,
       force_refresh \in BOOLEAN :
        \E llm \in GroupLlmOutcomes(token, company, city, force_refresh) :
            AnalyzeGroup(token, company, city, force_refresh, llm)

DoAnalyzeUser ==
    \E token \in AnalysisTokens, user_id \in 3..(Len(users) + 1) :
        \E llm \in UserLlmOutcomes(token, user_id) :
            AnalyzeUser(token, user_id, llm)

\* the administrator moves the employee of Kit-Lab to another company
DoMoveEmployee ==
    UpdateUser(TokenOf(users, AdminId), 4, [company |-> CompanyBank])

NextAnalysis == DoAnalyzeGroup \/ DoAnalyzeUser \/ DoMoveEmployee

SpecAnalysis == InitAnalysis /\ [][NextAnalysis]_vars

-----------------------------------------------------------------------------
(* The claims about the analysis *)

\* the request passes get_manager_or_admin and the checks of lines 139-156
GroupRequestServed(us, caller, company, city) ==
    /\ caller # 0
    /\ us[caller].role \in {ADMIN, MANAGER}
    /\ ~ (Falsy(company) /\ Falsy(city))
    /\ us[caller].role = MANAGER =>
          /\ Falsy(company) \/ company = us[caller].company
          /\ Falsy(city) \/ city = us[caller].city

\* C9: once a group analysis for a key (company, city) succeeded, a served
\* request with that key and force_refresh = false is answered 200 with the
\* stored result, without an LLM call and without a change of the cache; a
\* served request with force_refresh = true computes anew (it calls the LLM
\* whenever the group has an active employee, and is never answered from the
\* cache) and, when it succeeds, stores its result, newer than every stored
\* one, under its key, and leaves the entries of the other keys as they were.
C9_CacheStep ==
    LET rq == response'.arg
        cache_key == make_cache_key(rq.company, rq.city)
    IN (/\ response'.op = "analyze_group_burnout"
        /\ GroupRequestServed(users, rq.caller, rq.company, rq.city))
       => /\ (cache_key \in DOMAIN cache /\ ~ rq.force_refresh) =>
                /\ response'.status = 200
                /\ rq.body = cache[cache_key]
                /\ llm_calls' = llm_calls
                /\ cache' = cache
          /\ rq.force_refresh =>
                /\ llm_calls' = llm_calls +
                       (IF collect_group_data(users, rq.company, rq.city) # {}
                        THEN 1 ELSE 0)
                /\ response'.status = 200 =>
                      /\ cache_key \in DOMAIN cache'
                      /\ cache'[cache_key] = rq.body
                      /\ rq.llm_called
                      /\ \A k \in DOMAIN cache :
                            cache[k].analysis_date < rq.body.analysis_date
                /\ DOMAIN cache' \subseteq DOMAIN cache \cup {cache_key}
                /\ \A k \in DOMAIN cache \ {cache_key} :
                      k \in DOMAIN cache' /\ cache'[k] = cache[k]

C9_GroupAnalysisCache == [][C9_CacheStep]_vars

\* a request answered from the cache after the LLM has been called more than
\* once, so after the entry it serves was stored and another was computed
C9_Witness ==
    /\ response.op = "analyze_group_burnout"
    /\ response.status = 200
    /\ ~ response.arg.force_refresh
    /\ ~ response.arg.llm_called
    /\ response.arg.body = cache[make_cache_key(response.arg.company, response.arg.city)]
    /\ llm_calls > 1
    /\ \E k \in DOMAIN cache : cache[k].analysis_date > 1

\* C10: a manager who asks for the individual analysis of a user whose
\* hierarchy status is not exactly "podchinennyj_<manager id>", or for the
\* group analysis of a company or city that is not the one of the manager's
\* profile, is answered 403, and no LLM call is made.
C10_ManagerScopeForbidden ==
    LET caller == response.arg.caller
    IN /\ (/\ response.op = "analyze_user_burnout"
           /\ caller # 0
           /\ users[caller].role = MANAGER
           /\ response.target \in DOMAIN users
           /\ users[response.target].hierarchy_status # SubordinateOf(caller))
          => (response.status = 403 /\ ~ response.arg.llm_called)
       /\ (/\ response.op = "analyze_group_burnout"
           /\ caller # 0
           /\ users[caller].role = MANAGER
           /\ \/ ~ Falsy(response.arg.company)
                 /\ response.arg.company # users[caller].company
              \/ ~ Falsy(response.arg.city)
                 /\ response.arg.city # users[caller].city)
          => (response.status = 403 /\ ~ response.arg.llm_called)

\* C11: in the individual and the group analysis only a missing user, or a
\* filter that matches no employee, is answered 404; a request that reached
\* the LLM and did not succeed (the call failed, or the reply could not be
\* parsed) is answered 500.
C11_OnlyNotFoundIs404 ==
    /\ (response.op = "analyze_user_burnout" /\ response.status = 404)
          => (response.target \notin DOMAIN users /\ ~ response.arg.llm_called)
    /\ (response.op = "analyze_group_burnout" /\ response.status = 404)
          => /\ collect_group_data(users, response.arg.company, response.arg.city) = {}
             /\ ~ response.arg.llm_called
    /\ (/\ response.op \in {"analyze_user_burnout", "analyze_group_burnout"}
        /\ response.arg.llm_called
        /\ response.status # 200)
          => response.status = 500

\* C16: a group-analysis request of a manager or an administrator that
\* carries neither a company nor a city is answered 400, and no LLM call is
\* made.
C16_MissingFilterIs400 ==
    (/\ response.op = "analyze_group_burnout"
     /\ response.arg.caller # 0
     /\ users[response.arg.caller].role \in {ADMIN, MANAGER}
     /\ Falsy(response.arg.company)
     /\ Falsy(response.arg.city))
       => (response.status = 400 /\ ~ response.arg.llm_called)

-----------------------------------------------------------------------------
(* The AI chat: routers/ai.py.  POST /ai/chat resolves the session, stores  *)
(* the user message and returns the generator                               *)
(* ollama_stream_generator_with_save, which the server then advances from   *)
(* one yield to the next.  One response stream is in progress at a time.    *)

\* a row of chat_sessions_bot; its id is its position in chat_sessions
ChatSessionBot(user_id, title, created_at) ==
    [user_id |-> user_id, title |-> title, created_at |-> created_at]

\* a row of chat_messages_bot
ChatMessageBot(session_id, user_id, role, content) ==
    [session_id |-> session_id, user_id |-> user_id, role |-> role, content |-> content]

\* ChatMessageBotBase of the request
RequestMessage(role, content) == [role |-> role, content |-> content]

TitleLen == 50

\* s[:n]
Take(s, n) == SubSeq(s, 1, IF Len(s) < n THEN Len(s) ELSE n)

\* session_id: Optional[int] = None of ChatRequest, as a number that is no id
AbsentSessionId == 0 - 1

\* the request's session_id is None or 0: "if chat_request.session_id" fails
NoSessionId(session_id) == session_id = AbsentSessionId \/ session_id = 0

owned_session_any(sessions, session_id, user_id) == session_id \in DOMAIN sessions

\* the query by id and owner (lines 82-85): TRUE when a row is found
owned_session(sessions, session_id, user_id) ==
    session_id \in DOMAIN sessions /\ sessions[session_id].user_id = user_id

\* order_by(created_at.desc()).first() over the caller's sessions; 0 for None
latest_session(sessions, user_id) ==
    LET own == {i \in DOMAIN sessions : sessions[i].user_id = user_id}
    IN IF own = {} THEN 0
       ELSE CHOOSE i \in own :
                \A j \in own : sessions[j].created_at <= sessions[i].created_at

\* the title of the session that chat creates
new_session_title(messages) ==
    Take(IF messages # <<>> THEN messages[1].content ELSE <<"New Chat">>, TitleLen)

\* POST /ai/chat up to the StreamingResponse.  session = 0 when the request
\* is refused.
chat(us, sessions, stored, token, session_id, messages) ==
    LET current_user == get_current_user(us, token)
        found == latest_session(sessions, current_user)
        created == Append(sessions,
                          ChatSessionBot(current_user, new_session_title(messages),
                                         Len(sessions) + 1))
        sessions2 == IF NoSessionId(session_id) /\ found = 0 THEN created ELSE sessions
        session == IF ~ NoSessionId(session_id) THEN session_id
                   ELSE IF found = 0 THEN Len(created)
                   ELSE found
        stored2 == IF messages # <<>>
                   THEN Append(stored,
                               ChatMessageBot(session, current_user, <<"user">>,
                                              messages[Len(messages)].content))
                   ELSE stored
    IN IF current_user = 0
       THEN [sessions |-> sessions, messages |-> stored, status |-> 401, session |-> 0]
       ELSE IF /\ ~ NoSessionId(session_id)
               /\ ~ owned_session(sessions, session_id, current_user)
       THEN [sessions |-> sessions, messages |-> stored, status |-> 404, session |-> 0]
       ELSE [sessions |-> sessions2, messages |-> stored2, status |-> 200,
             session |-> session]

\* POST /ai/sessions
create_session(us, sessions, token, title) ==
    LET current_user == get_current_user(us, token)
    IN IF current_user = 0 THEN [sessions |-> sessions, status |-> 401]
       ELSE [sessions |-> Append(sessions,
                                 ChatSessionBot(current_user, title, Len(sessions) + 1)),
             status |-> 200]

ContentEvent(content) == [kind |-> "content", content |-> content]
ErrorEvent == [kind |-> "error", content |-> <<>>]
DoneEvent == [kind |-> "[DONE]", content |-> <<>>]

save_assistant_message_lost(stored, session_id, user_id, content, db_ok) ==
    [messages |-> stored, save_error |-> FALSE]

\* save_assistant_message: db_ok = FALSE is a database failure, which the
\* function logs and swallows
save_assistant_message(stored, session_id, user_id, content, db_ok) ==
    IF db_ok
    THEN [messages |-> Append(stored,
                              ChatMessageBot(session_id, user_id, <<"assistant">>, content)),
          save_error |-> FALSE]
    ELSE [messages |-> stored, save_error |-> TRUE]

finally_block_raising(stored, st, db_ok) ==
    LET saved == IF st.assistant_response # <<>>
                 THEN save_assistant_message(stored, st.session_id, st.user_id,
                                             st.assistant_response, db_ok)
                 ELSE [messages |-> stored, save_error |-> FALSE]
    IN [messages |-> saved.messages,
        stream |-> [st EXCEPT !.pc = "done",
                              !.events = IF saved.save_error THEN @ ELSE Append(@, DoneEvent),
                              !.save_error = saved.save_error]]

\* the finally clause of ollama_stream_generator_with_save
finally_block(stored, st, db_ok) ==
    LET saved == IF st.assistant_response # <<>>
                 THEN save_assistant_message(stored, st.session_id, st.user_id,
                                             st.assistant_response, db_ok)
                 ELSE [messages |-> stored, save_error |-> FALSE]
    IN [messages |-> saved.messages,
        stream |-> [st EXCEPT !.pc = "done",
                              !.events = Append(@, DoneEvent),
                              !.save_error = saved.save_error]]

-----------------------------------------------------------------------------
(* The chat requests *)

ShortText == <<"h", "i">>
OtherText == <<"y", "o">>
\* 50 characters and one more
LongText == [i \in 1..(TitleLen + 1) |-> IF i <= TitleLen THEN "x" ELSE "y"]

ChatTokens ==
    {[valid |-> FALSE, sub |-> None]} \cup
    {[valid |-> TRUE, sub |-> generate_email_for_employee(n)] : n \in {NameLiAn, NameKoBo}}

RequestMessageLists ==
    { <<>>,
      <<RequestMessage(<<"user">>, LongText)>>,
      <<RequestMessage(<<"user">>, ShortText), RequestMessage(<<"user">>, OtherText)>> }

SessionIds == {AbsentSessionId, 0, 1, MaxSessions + 1}

ChunkContents == {<<"a">>}

ChunksOf(st) == Len(SelectSeq(st.events, LAMBDA e : e.kind = "content"))

Chat(token, session_id, messages) ==
    LET r == chat(users, chat_sessions, chat_messages, token, session_id, messages)
    IN /\ stream.pc \in {"idle", "done"}
       /\ Len(r.sessions) <= MaxSessions
       /\ r.status = 200 => Len(r.messages) < MaxChatMessages
       /\ chat_sessions' = r.sessions
       /\ chat_messages' = r.messages
       /\ stream' = IF r.status = 200
                    THEN [pc |-> "streaming", session_id |-> r.session,
                          user_id |-> get_current_user(users, token),
                          assistant_response |-> <<>>, events |-> <<>>,
                          failed |-> FALSE, save_error |-> FALSE]
                    ELSE NoStream
       /\ response' = Respond("chat", r.status, r.session, <<>>, 0)
       /\ UNCHANGED <<users, notifications, diaryVars, analysisVars, news, requests>>

CreateSession(token, title) ==
    LET r == create_session(users, chat_sessions, token, title)
    IN /\ Len(r.sessions) <= MaxSessions
       /\ chat_sessions' = r.sessions
       /\ response' = Respond("create_session", r.status, 0, <<>>, 0)
       /\ UNCHANGED <<users, notifications, diaryVars, analysisVars, chat_messages,
                      stream, news, requests>>

\* the LLM stream yields a chunk
StreamChunk(content) ==
    /\ stream.pc = "streaming"
    /\ ChunksOf(stream) < MaxChunks
    /\ stream' = [stream EXCEPT !.assistant_response = @ \o content,
                                !.events = Append(@, ContentEvent(content))]
    /\ UNCHANGED <<users, notifications, response, diaryVars, analysisVars,
                   chat_sessions, chat_messages, news, requests>>

\* client.chat or the iteration of the stream raises
StreamFail ==
    /\ stream.pc = "streaming"
    /\ stream' = [stream EXCEPT !.pc = "failed", !.failed = TRUE,
                                !.events = Append(@, ErrorEvent)]
    /\ UNCHANGED <<users, notifications, response, diaryVars, analysisVars,
                   chat_sessions, chat_messages, news, requests>>

\* the LLM stream ends, or the generator is resumed after the error event
StreamFinally(db_ok) ==
    LET r == finally_block(chat_messages, stream, db_ok)
    IN /\ stream.pc \in {"streaming", "failed"}
       /\ chat_messages' = r.messages
       /\ stream' = r.stream
       /\ UNCHANGED <<users, notifications, response, diaryVars, analysisVars,
                      chat_sessions, news, requests>>

InitChat ==
    /\ users = <<SeedAdmin, SecondUser>>
    /\ notifications = EmptyBag
    /\ response = NoResponse
    /\ mood_entries = EmptyBag
    /\ today = 1
    /\ burnout_tests = <<>>
    /\ cache = <<>>
    /\ llm_calls = 0
    /\ InitContent

\* the callers of the chat: no valid token, and the second user
ChatCallers == ChatTokens \ {TokenOf(<<SeedAdmin>>, 1)}

DoChat ==
    \E token \in ChatCallers, session_id \in SessionIds, messages \in RequestMessageLists :
        Chat(token, session_id, messages)

DoCreateSession == \E token \in ChatTokens : CreateSession(token, ShortText)

DoStreamChunk == \E content \in ChunkContents : StreamChunk(content)

DoStreamFinally == \E db_ok \in BOOLEAN : StreamFinally(db_ok)

NextChat == DoChat \/ DoCreateSession \/ DoStreamChunk \/ StreamFail \/ DoStreamFinally

SpecChat == InitChat /\ [][NextChat]_vars

-----------------------------------------------------------------------------
(* The claims about the chat *)

EventKinds(st) == [i \in DOMAIN st.events |-> st.events[i].kind]

\* the text of the content events of a stream, in order
RECURSIVE StreamedText(_)
StreamedText(events) ==
    IF events = <<>> THEN <<>>
    ELSE (IF Head(events).kind = "content" THEN Head(events).content ELSE <<>>)
             \o StreamedText(Tail(events))

\* C12: the events of a response stream are content events, then one error
\* event exactly when the LLM call or stream failed, then one [DONE] event,
\* which is the last; a finished stream ends with [DONE] also after a failure
\* and after a failed write of the assistant message.
C12_StreamShape ==
    LET kinds == EventKinds(stream)
        n == Len(kinds)
        errors == {i \in 1..n : kinds[i] = "error"}
        dones == {i \in 1..n : kinds[i] = "[DONE]"}
    IN /\ \A i \in 1..n : kinds[i] = "content" => \A j \in 1..i : kinds[j] = "content"
       /\ \A i \in errors : \A j \in 1..(i - 1) : kinds[j] = "content"
       /\ Cardinality(errors) <= 1
       /\ dones \subseteq {n}
       /\ stream.pc \in {"failed", "done"} => (errors # {} <=> stream.failed)
       /\ stream.pc = "streaming" => (errors = {} /\ dones = {})
       /\ stream.pc = "failed" => (errors = {n} /\ dones = {})
       /\ stream.pc = "done" => dones = {n}

\* a stream that failed after a chunk, whose assistant message could not be
\* written, and that ended with [DONE]
C12_Witness ==
    /\ stream.pc = "done"
    /\ stream.failed
    /\ stream.save_error
    /\ EventKinds(stream) = <<"content", "error", "[DONE]">>

TurnRow(st) ==
    ChatMessageBot(st.session_id, st.user_id, <<"assistant">>, st.assistant_response)

\* the original statement of C13: when the stream of a turn completes, after
\* success or after a failure, the accumulated text is written as one
\* assistant message of the turn's session, and [DONE] follows.
C13_EveryTurnStep ==
    (stream.pc \in {"streaming", "failed"} /\ stream'.pc = "done")
       => /\ chat_messages' = Append(chat_messages, TurnRow(stream))
          /\ stream'.events = Append(stream.events, DoneEvent)

C13_PersistStep ==
    /\ stream.pc # "idle" => stream.assistant_response = StreamedText(stream.events)
    /\ (stream.pc \in {"streaming", "failed"} /\ stream'.pc = "done")
          => /\ stream'.events = Append(stream.events, DoneEvent)
             /\ owned_session(chat_sessions, stream.session_id, stream.user_id)
             /\ IF stream.assistant_response # <<>> /\ ~ stream'.save_error
                THEN chat_messages' = Append(chat_messages, TurnRow(stream))
                ELSE chat_messages' = chat_messages
    /\ (stream.pc = "streaming" /\ stream'.pc \in {"streaming", "failed"})
          => chat_messages' = chat_messages

SessionsOf(user_id) == {i \in DOMAIN chat_sessions : chat_sessions[i].user_id = user_id}

MostRecentOf(user_id) ==
    CHOOSE i \in SessionsOf(user_id) :
        \A j \in SessionsOf(user_id) :
            chat_sessions[j].created_at <= chat_sessions[i].created_at

\* what a turn stores of the request: its last message, as the caller's
UserRow(session, user_id, messages) ==
    ChatMessageBot(session, user_id, <<"user">>, messages[Len(messages)].content)

\* both statements of C14 agree on this: an accepted turn stores the user
\* message, when there is one, in a session the caller owns, and nothing else
StoresUserMessage(r, user_id, messages) ==
    r.status = 200 =>
        /\ owned_session(r.sessions, r.session, user_id)
        /\ r.messages = IF messages # <<>>
                        THEN Append(chat_messages, UserRow(r.session, user_id, messages))
                        ELSE chat_messages

\* the original statement of C14: a supplied session id that is not a session
\* of the caller yields 404 and stores nothing; with the id omitted the
\* caller's most recent session is reused and none is created; only when the
\* caller has no session one is created, titled with the first 50 characters
\* of the incoming message; the user message goes to a session of the caller.
C14_SessionResolutionAsStated ==
    \A token \in ChatTokens, session_id \in SessionIds, messages \in RequestMessageLists :
        LET user_id == get_current_user(users, token)
            r == chat(users, chat_sessions, chat_messages, token, session_id, messages)
        IN user_id # 0 =>
             /\ (/\ session_id # AbsentSessionId
                 /\ ~ (session_id \in SessionsOf(user_id)))
                   => /\ r.status = 404
                      /\ r.sessions = chat_sessions
                      /\ r.messages = chat_messages
             /\ (session_id = AbsentSessionId /\ SessionsOf(user_id) # {})
                   => /\ r.status = 200
                      /\ r.sessions = chat_sessions
                      /\ r.session = MostRecentOf(user_id)
             /\ (session_id = AbsentSessionId /\ SessionsOf(user_id) = {})
                   => /\ r.status = 200
                      /\ Len(r.sessions) = Len(chat_sessions) + 1
                      /\ SubSeq(r.sessions, 1, Len(chat_sessions)) = chat_sessions
                      /\ r.session = Len(r.sessions)
                      /\ r.sessions[r.session].user_id = user_id
                      /\ messages # <<>> =>
                            r.sessions[r.session].title =
                                Take(messages[Len(messages)].content, TitleLen)
             /\ StoresUserMessage(r, user_id, messages)

\* C14, as the code has it: a session id is supplied when it is neither
\* absent nor 0; a supplied id that is not a session of the caller yields 404
\* and stores nothing, one that is selects that session; otherwise the
\* caller's most recent session is reused and none is created, and only when
\* the caller has none one is created, titled with the first 50 characters of
\* the first message of the request, or "New Chat" when the request carries
\* no message; the user message goes to a session of the caller.
C14_SessionResolution ==
    \A token \in ChatTokens, session_id \in SessionIds, messages \in RequestMessageLists :
        LET user_id == get_current_user(users, token)
            r == chat(users, chat_sessions, chat_messages, token, session_id, messages)
            supplied == session_id # AbsentSessionId /\ session_id # 0
        IN user_id # 0 =>
             /\ (supplied /\ ~ (session_id \in SessionsOf(user_id)))
                   => /\ r.status = 404
                      /\ r.sessions = chat_sessions
                      /\ r.messages = chat_messages
             /\ (supplied /\ session_id \in SessionsOf(user_id))
                   => /\ r.status = 200
                      /\ r.sessions = chat_sessions
                      /\ r.session = session_id
             /\ (~ supplied /\ SessionsOf(user_id) # {})
                   => /\ r.status = 200
                      /\ r.sessions = chat_sessions
                      /\ r.session = MostRecentOf(user_id)
             /\ (~ supplied /\ SessionsOf(user_id) = {})
                   => /\ r.status = 200
                      /\ Len(r.sessions) = Len(chat_sessions) + 1
                      /\ SubSeq(r.sessions, 1, Len(chat_sessions)) = chat_sessions
                      /\ r.session = Len(r.sessions)
                      /\ r.sessions[r.session].user_id = user_id
                      /\ r.sessions[r.session].title =
                            IF messages = <<>> THEN <<"New Chat">>
                            ELSE Take(messages[1].content, TitleLen)
             /\ StoresUserMessage(r, user_id, messages)

\* a turn that created its session from a message of more than 50 characters
\* and stored that message in it, while another user has a session
C14_Witness ==
    /\ response.op = "chat"
    /\ response.status = 200
    /\ response.target \in DOMAIN chat_sessions
    /\ Len(chat_sessions[response.target].title) = TitleLen
    /\ chat_sessions[response.target].title # LongText
    /\ \E i \in DOMAIN chat_sessions :
          chat_sessions[i].user_id # chat_sessions[response.target].user_id
    /\ chat_messages # <<>>
    /\ chat_messages[Len(chat_messages)] =
          ChatMessageBot(response.target, chat_sessions[response.target].user_id,
                         <<"user">>, LongText)

-----------------------------------------------------------------------------
(* The news: routers/news.py over crud.create_news and crud.get_news_by_id. *)

\* a row of table news; its id is its position in news
News(title, content, created_by) ==
    [title |-> title, content |-> content, created_by |-> created_by, is_active |-> TRUE]

get_news_by_id_any(items, news_id) == IF news_id \in DOMAIN items THEN news_id ELSE 0

\* crud.get_news_by_id: 0 for None; an inactive row is not found
get_news_by_id(items, news_id) ==
    IF news_id \in DOMAIN items /\ items[news_id].is_active THEN news_id ELSE 0

is_author_any(items, news_id, current_user) == TRUE

\* lines 66 and 92: the caller created the item
is_author(items, news_id, current_user) == items[news_id].created_by = current_user

\* POST /news/
create_news_endpoint(us, items, token, title, content) ==
    LET guard == get_admin_user(us, token)
    IN IF guard # 0 THEN [news |-> items, status |-> guard]
       ELSE [news |-> Append(items, News(title, content, get_current_user(us, token))),
             status |-> 200]

\* PATCH /news/{news_id}; news_update carries title and content, and
\* is_active when it is set
update_news(us, items, token, news_id, news_update) ==
    LET guard == get_admin_user(us, token)
        db_news == get_news_by_id(items, news_id)
    IN IF guard # 0 THEN [news |-> items, status |-> guard]
       ELSE IF db_news = 0 THEN [news |-> items, status |-> 404]
       ELSE IF ~ is_author(items, news_id, get_current_user(us, token))
       THEN [news |-> items, status |-> 403]
       ELSE [news |-> [items EXCEPT ![news_id] =
                          [@ EXCEPT !.title = news_update.title,
                                    !.content = news_update.content,
                                    !.is_active =
                                        IF "is_active" \in DOMAIN news_update
                                        THEN news_update.is_active ELSE @]],
             status |-> 200]

\* DELETE /news/{news_id}
delete_news(us, items, token, news_id) ==
    LET guard == get_admin_user(us, token)
        db_news == get_news_by_id(items, news_id)
    IN IF guard # 0 THEN [news |-> items, status |-> guard]
       ELSE IF db_news = 0 THEN [news |-> items, status |-> 404]
       ELSE IF ~ is_author(items, news_id, get_current_user(us, token))
       THEN [news |-> items, status |-> 403]
       ELSE [news |-> [items EXCEPT ![news_id].is_active = FALSE], status |-> 204]

-----------------------------------------------------------------------------
(* The news requests *)

\* two administrators and an employee
NewsUsers ==
    << SeedAdmin,
       create_user(NameKoBo, <<"p2@mail.ru">>, generate_email_for_employee(NameKoBo),
                   GoodPassword, ADMIN, None, None, None),
       create_user(NameSaRa, <<"p3@mail.ru">>, generate_email_for_employee(NameSaRa),
                   GoodPassword, USER, None, None, None) >>

NewsTokens == {TokenOf(NewsUsers, i) : i \in DOMAIN NewsUsers}

NewsTitles == {<<"t1">>, <<"t2">>}
NewsContent == <<"c1">>

OtherNewsContent == <<"c2">>

NewsUpdates ==
    {[title |-> t, content |-> NewsContent] : t \in NewsTitles}
        \cup {[title |-> t, content |-> OtherNewsContent, is_active |-> a] :
                 t \in {<<"t2">>}, a \in BOOLEAN}

CreateNews(token, title, content) ==
    LET r == create_news_endpoint(users, news, token, title, content)
    IN /\ Len(r.news) <= MaxNews
       /\ news' = r.news
       /\ response' = Respond("create_news_endpoint", r.status, 0,
                              [caller |-> get_current_user(users, token)], 0)
       /\ UNCHANGED <<users, notifications, diaryVars, analysisVars, chatVars, requests>>

UpdateNews(token, news_id, news_update) ==
    LET r == update_news(users, news, token, news_id, news_update)
    IN /\ news' = r.news
       /\ response' = Respond("update_news", r.status, news_id,
                              [caller |-> get_current_user(users, token)], 0)
       /\ UNCHANGED <<users, notifications, diaryVars, analysisVars, chatVars, requests>>

DeleteNews(token, news_id) ==
    LET r == delete_news(users, news, token, news_id)
    IN /\ news' = r.news
       /\ response' = Respond("delete_news", r.status, news_id,
                              [caller |-> get_current_user(users, token)], 0)
       /\ UNCHANGED <<users, notifications, diaryVars, analysisVars, chatVars, requests>>

InitNews ==
    /\ users = NewsUsers
    /\ notifications = EmptyBag
    /\ response = NoResponse
    /\ mood_entries = EmptyBag
    /\ today = 1
    /\ burnout_tests = <<>>
    /\ cache = <<>>
    /\ llm_calls = 0
    /\ InitContent

DoCreateNews == \E token \in NewsTokens : CreateNews(token, <<"t1">>, NewsContent)

DoUpdateNews ==
    \E token \in NewsTokens, news_id \in 1..(Len(news) + 1), news_update \in NewsUpdates :
        UpdateNews(token, news_id, news_update)

DoDeleteNews ==
    \E token \in NewsTokens, news_id \in 1..(Len(news) + 1) : DeleteNews(token, news_id)

\* the first administrator takes the admin role from the second, or gives it back
DoChangeRole ==
    \E role \in {ADMIN, USER} : UpdateUser(TokenOf(users, AdminId), 2, [role |-> role])

NextNews == DoCreateNews \/ DoUpdateNews \/ DoDeleteNews \/ DoChangeRole

SpecNews == InitNews /\ [][NextNews]_vars

-----------------------------------------------------------------------------
(* The claims about the news *)

NewsRequest(r) == r.op \in {"update_news", "delete_news"}

\* both statements of C15 agree on this: an item changes only in a PATCH or
\* DELETE of that item by an administrator who created it; no item leaves the
\* table and created_by never changes; a caller who is not an administrator
\* is answered 403 by the guard.
C15_OnlyAuthorChanges ==
    /\ Len(news') >= Len(news)
    /\ \A i \in DOMAIN news :
          /\ news'[i].created_by = news[i].created_by
          /\ news'[i] # news[i] =>
                /\ NewsRequest(response')
                /\ response'.target = i
                /\ response'.arg.caller = news[i].created_by
                /\ users[response'.arg.caller].role = ADMIN
    /\ (/\ NewsRequest(response')
        /\ response'.arg.caller # 0
        /\ users[response'.arg.caller].role # ADMIN)
          => (response'.status = 403 /\ news' = news)

\* the original statement of C15: moreover a PATCH or DELETE of an item by an
\* administrator who is not its author is answered 403.
C15_OtherAdminStepAsStated ==
    /\ C15_OnlyAuthorChanges
    /\ (/\ NewsRequest(response')
        /\ response'.arg.caller # 0
        /\ users[response'.arg.caller].role = ADMIN
        /\ response'.target \in DOMAIN news
        /\ news[response'.target].created_by # response'.arg.caller)
          => (response'.status = 403 /\ news' = news)

C15_AuthorOnlyAsStated == [][C15_OtherAdminStepAsStated]_vars

\* C15, as the code has it: moreover a PATCH or DELETE of an active item by an
\* administrator who is not its author is answered 403; an item that was
\* deactivated is not found any more: a PATCH or DELETE of it by any
\* administrator, its author included, is answered 404; the item is unchanged
\* in both cases.
C15_OtherAdminStep ==
    /\ C15_OnlyAuthorChanges
    /\ (/\ NewsRequest(response')
        /\ response'.arg.caller # 0
        /\ users[response'.arg.caller].role = ADMIN
        /\ response'.target \in DOMAIN news)
          => /\ (/\ news[response'.target].is_active
                 /\ news[response'.target].created_by # response'.arg.caller)
                   => (response'.status = 403 /\ news' = news)
             /\ ~ news[response'.target].is_active
                   => (response'.status = 404 /\ news' = news)

C15_AuthorOnly == [][C15_OtherAdminStep]_vars

\* an item that its author has edited, and that another administrator was
\* then refused to change
C15_Witness ==
    /\ NewsRequest(response)
    /\ response.status = 403
    /\ response.target \in DOMAIN news
    /\ users[response.arg.caller].role = ADMIN
    /\ news[response.target].created_by # response.arg.caller
    /\ news[response.target].is_active
    /\ news[response.target].title = <<"t2">>

-----------------------------------------------------------------------------
(* The burnout tests: routers/burnout_test.py over crud.create_burnout_test *)
(* and crud.update_burnout_test_comments, and the risk statistics of        *)
(* generate_group_burnout_analysis.  Of the four scores of a result only    *)
(* total_score is read by the code modelled here.                           *)

\* crud.create_burnout_test: the new row, comments unset
create_burnout_test(tests, user_id, total_score) ==
    Append(tests, [user_id |-> user_id, total_score |-> total_score,
                   comment_work |-> None, comment_factors |-> None])

owns_test_any(tests, test_id, user_id) == test_id \in DOMAIN tests

\* the filter of crud.update_burnout_test_comments: id and owner
owns_test(tests, test_id, user_id) ==
    test_id \in DOMAIN tests /\ tests[test_id].user_id = user_id

\* crud.update_burnout_test_comments
update_burnout_test_comments(tests, user_id, test_id, data) ==
    IF ~ owns_test(tests, test_id, user_id)
    THEN [tests |-> tests, status |-> 404]
    ELSE [tests |-> [tests EXCEPT ![test_id] =
                        [@ EXCEPT !.comment_work = data.comment_work,
                                  !.comment_factors = data.comment_factors]],
          status |-> 200]

\* emp["burnout_tests"][0].total_score: the user's tests come newest first
latest_total_score(tests, user_id) ==
    LET mine == {t \in DOMAIN tests : tests[t].user_id = user_id}
    IN tests[CHOOSE t \in mine : \A o \in mine : o <= t].total_score

\* the statistics of generate_group_burnout_analysis, lines 238-247;
\* burnout_scores maps each employee with tests to the latest score
risk_statistics(tests, employees) ==
    LET with_tests == {i \in employees : has_burnout_tests(tests, i)}
        burnout_scores == [i \in with_tests |-> latest_total_score(tests, i)]
        count(lo, hi) ==
            Cardinality({i \in with_tests : lo <= burnout_scores[i] /\ burnout_scores[i] <= hi})
    IN [total_employees |-> Cardinality(employees),
        employees_with_tests |-> Cardinality(with_tests),
        burnout_scores |-> burnout_scores,
        high_risk |-> count(41, 55),
        critical_risk |-> count(56, 60),
        medium_risk |-> count(26, 40),
        low_risk |-> count(10, 25)]

-----------------------------------------------------------------------------
(* The burnout test requests *)

TestTokens == {[valid |-> FALSE, sub |-> None]} \cup {TokenOf(AnalysisUsers, i) : i \in {3, 4}}

\* total_score is an int of the request, not validated
TestScores == {9, 25, 41, 61}

\* a field the request leaves out is None in BurnoutTestUpdateComments
CommentUpdates ==
    {[comment_work |-> None, comment_factors |-> None],
     [comment_work |-> <<"w">>, comment_factors |-> <<"f">>]}

\* the requests that supply one of the two comments
PartialCommentUpdates ==
    {[comment_work |-> <<"w">>, comment_factors |-> None],
     [comment_work |-> None, comment_factors |-> <<"f">>]}

\* POST /burnout-tests
CreateBurnoutTest(token, total_score) ==
    LET current_user == get_current_user(users, token)
    IN /\ Len(burnout_tests) < MaxTests
       /\ burnout_tests' = IF current_user = 0 THEN burnout_tests
                           ELSE create_burnout_test(burnout_tests, current_user, total_score)
       /\ response' = Respond("create_burnout_test", IF current_user = 0 THEN 401 ELSE 200,
                              0, [caller |-> current_user], 0)
       /\ UNCHANGED <<users, notifications, diaryVars, cache, llm_calls, contentVars>>

\* PATCH /burnout-tests/{test_id}/comments
UpdateBurnoutTestComments(token, test_id, data) ==
    LET current_user == get_current_user(users, token)
        r == IF current_user = 0 THEN [tests |-> burnout_tests, status |-> 401]
             ELSE update_burnout_test_comments(burnout_tests, current_user, test_id, data)
    IN /\ burnout_tests' = r.tests
       /\ response' = Respond("update_burnout_test_comments", r.status, test_id,
                              [caller |-> current_user], 0)
       /\ UNCHANGED <<users, notifications, diaryVars, cache, llm_calls, contentVars>>

\* the statistics step of a group analysis over the employees of a filter
GroupStatistics(company, city) ==
    LET employees == collect_group_data(users, company, city)
    IN /\ employees # {}
       /\ response' = Respond("generate_group_burnout_analysis", 200, 0,
                              risk_statistics(burnout_tests, employees), 0)
       /\ UNCHANGED <<users, notifications, diaryVars, analysisVars, contentVars>>

InitTests ==
    /\ users = AnalysisUsers
    /\ notifications = EmptyBag
    /\ response = NoResponse
    /\ mood_entries = EmptyBag
    /\ today = 1
    /\ burnout_tests = <<>>
    /\ cache = <<>>
    /\ llm_calls = 0
    /\ InitContent

DoCreateBurnoutTest ==
    \E token \in TestTokens, total_score \in TestScores : CreateBurnoutTest(token, total_score)

DoUpdateBurnoutTestComments ==
    \E token \in TestTokens, test_id \in 0..(Len(burnout_tests) + 1), data \in CommentUpdates :
        UpdateBurnoutTestComments(token, test_id, data)

DoGroupStatistics ==
    \E company \in {None, CompanyKIT}, city \in {<<>>, CityOb} : GroupStatistics(company, city)

NextTests == DoCreateBurnoutTest \/ DoUpdateBurnoutTestComments \/ DoGroupStatistics

SpecTests == InitTests /\ [][NextTests]_vars

-----------------------------------------------------------------------------
(* The claims about the burnout tests *)

\* C17: a PATCH of the comments of a test id that does not exist or is not
\* the caller's is answered 404 and leaves every test result unchanged; a
\* test result changes only in a PATCH of its comments by its owner, and no
\* result leaves the table.
C17_CommentsStep ==
    /\ Len(burnout_tests') >= Len(burnout_tests)
    /\ \A t \in DOMAIN burnout_tests :
          burnout_tests'[t] # burnout_tests[t] =>
              /\ response'.op = "update_burnout_test_comments"
              /\ response'.target = t
              /\ response'.arg.caller = burnout_tests[t].user_id
              /\ burnout_tests'[t].user_id = burnout_tests[t].user_id
              /\ burnout_tests'[t].total_score = burnout_tests[t].total_score
    /\ (/\ response'.op = "update_burnout_test_comments"
        /\ response'.arg.caller # 0
        /\ \/ response'.target \notin DOMAIN burnout_tests
           \/ burnout_tests[response'.target].user_id # response'.arg.caller)
          => (response'.status = 404 /\ burnout_tests' = burnout_tests)

C17_ForeignCommentsRefused == [][C17_CommentsStep]_vars

\* a user was refused on another user's test, whose owner had commented it
C17_Witness ==
    /\ response.op = "update_burnout_test_comments"
    /\ response.status = 404
    /\ response.target \in DOMAIN burnout_tests
    /\ response.arg.caller # 0
    /\ burnout_tests[response.target].user_id # response.arg.caller
    /\ burnout_tests[response.target].comment_work = <<"w">>

\* the shared classification of a score, as C20 states it
SharedBand(s) ==
    IF s <= 25 THEN "low" ELSE IF s <= 40 THEN "medium"
    ELSE IF s <= 55 THEN "high" ELSE "critical"

\* C20: in the statistics of a group every latest score s of at most 60 is
\* counted in the band of the shared classification (s <= 25 low, 26-40
\* medium, 41-55 high, 56-60 critical), so when every score is at most 60
\* the four counts add up to employees_with_tests.
C20_RiskBands ==
    response.op = "generate_group_burnout_analysis" =>
        LET st == response.arg
            scored(band) ==
                Cardinality({i \in DOMAIN st.burnout_scores :
                                /\ st.burnout_scores[i] <= 60
                                /\ SharedBand(st.burnout_scores[i]) = band})
            all_in_range == \A i \in DOMAIN st.burnout_scores : st.burnout_scores[i] <= 60
        IN /\ st.low_risk = scored("low")
           /\ st.medium_risk = scored("medium")
           /\ st.high_risk = scored("high")
           /\ st.critical_risk = scored("critical")
           /\ all_in_range =>
                 st.low_risk + st.medium_risk + st.high_risk + st.critical_risk
                     = st.employees_with_tests

-----------------------------------------------------------------------------
(* The frame of update_user *)

\* C18: update_user applies exactly the fields present in the payload and
\* leaves every other field of the user, and every other user, unchanged;
\* for each notifiable field present the user holds, afterwards, exactly one
\* notification describing the new value, and no other notification is
\* created.
C18_ExactlyPayloadFields ==
    \A user_id \in DOMAIN users, user_update \in ProfilePayloads :
        LET r == update_user(users, notifications, user_id, user_update)
            described ==
                {Notification(user_id, UpdateMessage(f, user_update[f])) :
                     f \in DOMAIN user_update \cap NOTIFY_FIELDS}
        IN /\ \A f \in DOMAIN users[user_id] :
                  r.users[user_id][f] =
                      IF f \in DOMAIN user_update THEN user_update[f]
                      ELSE users[user_id][f]
           /\ \A j \in DOMAIN users : j # user_id => r.users[j] = users[j]
           /\ BagToSet(r.notifications) = BagToSet(notifications) \cup described
           /\ \A n \in described : CopiesIn(n, r.notifications) = 1

-----------------------------------------------------------------------------
(* The diary statistics: GET /diary/stats *)

diary_rows_any_user(entries, user_id, day) == {e \in BagToSet(entries) : e.date <= day}

\* the rows of the streak query: the user's entries dated today or earlier
diary_rows(entries, user_id, day) ==
    {e \in BagToSet(entries) : e.user_id = user_id /\ e.date <= day}

\* order_by(date.desc()): the dates of the rows, each as often as the table
\* holds the row, latest first
RECURSIVE dates_desc(_, _)
dates_desc(rows, entries) ==
    IF rows = {} THEN <<>>
    ELSE LET e == CHOOSE x \in rows : \A y \in rows : y.date <= x.date
         IN [k \in 1..CopiesIn(e, entries) |-> e.date]
                \o dates_desc(rows \ {e}, entries)

\* the loop over dates; a date later than expected is passed over
RECURSIVE streak_loop(_, _, _)
streak_loop(dates, expected, streak) ==
    IF dates = <<>> THEN streak
    ELSE LET d == Head(dates)
         IN IF d = expected THEN streak_loop(Tail(dates), expected - 1, streak + 1)
            ELSE IF d < expected THEN streak
            ELSE streak_loop(Tail(dates), expected, streak)

\* get_diary_stats: the reply's current_streak
get_diary_stats(us, entries, day, token) ==
    LET current_user == get_current_user(us, token)
    IN IF current_user = 0 THEN [status |-> 401, current_streak |-> 0]
       ELSE [status |-> 200,
             current_streak |->
                 streak_loop(dates_desc(diary_rows(entries, current_user, day), entries),
                             day, 0)]

StreakTokens ==
    {[valid |-> FALSE, sub |-> None]}
        \cup {TokenOf(<<SeedAdmin, SecondUser>>, i) : i \in 1..2}

StreakDates == {NoDate} \cup 1..MaxStreakDay

GetDiaryStats(token) ==
    LET r == get_diary_stats(users, mood_entries, today, token)
    IN /\ response' = Respond("get_diary_stats", r.status, get_current_user(users, token),
                              <<r.current_streak>>, 0)
       /\ UNCHANGED <<users, notifications, diaryVars, analysisVars, contentVars>>

\* the calendar of the streak runs
NextStreakDay ==
    /\ today < MaxStreakDay
    /\ today' = today + 1
    /\ UNCHANGED <<users, notifications, response, mood_entries, analysisVars, contentVars>>

DoCreateStreakEntry ==
    \E token \in StreakTokens, date \in StreakDates : CreateEntry(token, date, 5, None)

DoGetDiaryStats == \E token \in StreakTokens : GetDiaryStats(token)

NextStreak == DoCreateStreakEntry \/ NextStreakDay \/ DoGetDiaryStats

SpecStreak == InitDiary /\ [][NextStreak]_vars

\* the length of the longest run of consecutive days ending on day, on each
\* of which the user has an entry
RunEndingOn(entries, user_id, day) ==
    LET runs == {k \in 0..day :
                    \A j \in 0..(k - 1) : has_mood_entry(entries, user_id, day - j)}
    IN CHOOSE k \in runs : \A o \in runs : o <= k

\* C19: current_streak of GET /diary/stats is the length of the longest run
\* of consecutive days ending today on each of which the caller has an entry:
\* 0 when there is no entry for today, a missing day ends the run, and the
\* entries dated in the future, like those of other users, do not count.
C19_CurrentStreak ==
    \A u \in DOMAIN users :
        LET r == get_diary_stats(users, mood_entries, today, TokenOf(users, u))
            past == mood_entries (-) SetToBag({e \in BagToSet(mood_entries) : e.date > today})
        IN /\ r.status = 200
           /\ r.current_streak = RunEndingOn(mood_entries, u, today)
           /\ ~ has_mood_entry(mood_entries, u, today) => r.current_streak = 0
           /\ r.current_streak =
                  get_diary_stats(users, past, today, TokenOf(users, u)).current_streak

\* the example: entries today, yesterday and three days ago but not two days
\* ago, and the reply said 2
C19_Witness ==
    /\ response.op = "get_diary_stats"
    /\ response.status = 200
    /\ response.arg = <<2>>
    /\ today = 4
    /\ has_mood_entry(mood_entries, response.target, today)
    /\ has_mood_entry(mood_entries, response.target, today - 1)
    /\ ~ has_mood_entry(mood_entries, response.target, today - 2)
    /\ has_mood_entry(mood_entries, response.target, today - 3)

-----------------------------------------------------------------------------
(* The monthly mood statistics: crud.get_mood_stats_for_month.  A calendar  *)
(* date is <<year, month, day>>; dates compare as date objects do.          *)

date_lt(a, b) ==
    \/ a[1] < b[1]
    \/ a[1] = b[1] /\ a[2] < b[2]
    \/ a[1] = b[1] /\ a[2] = b[2] /\ a[3] < b[3]

\* round(count * 100.0 / total, 1) in tenths of a percent; a tie goes to the
\* even tenth
round_percent(count, total) ==
    LET q == (count * 1000) \div total
        r == (count * 1000) % total
    IN IF 2 * r < total THEN q
       ELSE IF 2 * r > total THEN q + 1
       ELSE IF q % 2 = 0 THEN q ELSE q + 1

month_rows_inclusive(entries, user_id, year, month) ==
    LET first_day == <<year, month, 1>>
        next_month == IF month = 12 THEN <<year + 1, 1, 1>> ELSE <<year, month + 1, 1>>
    IN {e \in BagToSet(entries) :
           /\ e.user_id = user_id
           /\ ~ date_lt(e.date, first_day)
           /\ ~ date_lt(next_month, e.date)}

\* the query's filter: the user's rows from first_day up to next_month
month_rows(entries, user_id, year, month) ==
    LET first_day == <<year, month, 1>>
        next_month == IF month = 12 THEN <<year + 1, 1, 1>> ELSE <<year, month + 1, 1>>
    IN {e \in BagToSet(entries) :
           /\ e.user_id = user_id
           /\ ~ date_lt(e.date, first_day)
           /\ date_lt(e.date, next_month)}

\* sorted(by_day.items()): the rows of result for the days of `days`
RECURSIVE day_rows(_, _, _)
day_rows(days, rows, entries) ==
    IF days = {} THEN <<>>
    ELSE LET d == CHOOSE x \in days : \A y \in days : ~ date_lt(y, x)
             cnt(m) == BagCardinality([e \in {x \in rows : x.date = d /\ x.mood = m}
                                          |-> CopiesIn(e, entries)])
             counts == [m \in 1..5 |-> cnt(m)]
             total == counts[1] + counts[2] + counts[3] + counts[4] + counts[5]
         IN << [date |-> d, total |-> total, counts |-> counts,
                percents |-> [m \in 1..5 |->
                                 round_percent(counts[m], IF total = 0 THEN 1 ELSE total)]] >>
                \o day_rows(days \ {d}, rows, entries)

get_mood_stats_for_month(entries, user_id, year, month) ==
    LET rows == month_rows(entries, user_id, year, month)
    IN day_rows({e.date : e \in rows}, rows, entries)

StatsDates == {<<2024, 11, 30>>, <<2024, 12, 1>>, <<2024, 12, 31>>, <<2025, 1, 1>>}
StatsMonths == {<<2024, 11>>, <<2024, 12>>, <<2025, 1>>}
StatsMoods == {2, 5}

\* crud.create_mood_entry for a dated entry of a user
CreateDatedEntry(user_id, date, mood) ==
    LET r == create_mood_entry(mood_entries, user_id, date, mood, None)
    IN /\ BagCardinality(mood_entries) < MaxMoodEntries
       /\ mood_entries' = r.entries
       /\ response' = Respond("create_mood_entry", r.status, user_id, <<date>>, 0)
       /\ UNCHANGED <<users, notifications, today, analysisVars, contentVars>>

GetMoodStats(user_id, year, month) ==
    /\ response' = Respond("get_mood_stats_for_month", 0, user_id,
                           [year |-> year, month |-> month,
                            result |-> get_mood_stats_for_month(mood_entries, user_id,
                                                                year, month)], 0)
    /\ UNCHANGED <<users, notifications, diaryVars, analysisVars, contentVars>>

DoCreateDatedEntry ==
    \E user_id \in 1..2, date \in StatsDates, mood \in StatsMoods :
        CreateDatedEntry(user_id, date, mood)

DoGetMoodStats ==
    \E user_id \in 1..2, ym \in StatsMonths : GetMoodStats(user_id, ym[1], ym[2])

NextMoodStats == DoCreateDatedEntry \/ DoGetMoodStats

SpecMoodStats == InitDiary /\ [][NextMoodStats]_vars

\* the number of rows of a table for a user, a date and a set of moods
NumberOf(entries, user_id, d, moods) ==
    BagCardinality([e \in {x \in BagToSet(entries) :
                              x.user_id = user_id /\ x.date = d /\ x.mood \in moods}
                       |-> CopiesIn(e, entries)])

\* what the statistics of a month must be, for a table, a user and a month
MonthStatsAsStated(entries, user_id, year, month) ==
    LET result == get_mood_stats_for_month(entries, user_id, year, month)
        days == {e.date : e \in {x \in BagToSet(entries) :
                                    /\ x.user_id = user_id
                                    /\ x.date[1] = year
                                    /\ x.date[2] = month}}
    IN /\ {result[i].date : i \in DOMAIN result} = days
       /\ Len(result) = Cardinality(days)
       /\ \A i, j \in DOMAIN result : i < j => date_lt(result[i].date, result[j].date)
       /\ \A i \in DOMAIN result :
              LET row == result[i]
              IN /\ row.total = NumberOf(entries, user_id, row.date, 1..5)
                 /\ row.total > 0
                 /\ DOMAIN row.counts = 1..5
                 /\ DOMAIN row.percents = 1..5
                 /\ \A m \in 1..5 :
                        /\ row.counts[m] = NumberOf(entries, user_id, row.date, {m})
                        /\ 2 * (row.percents[m] * row.total - row.counts[m] * 1000)
                               <= row.total
                        /\ 2 * (row.counts[m] * 1000 - row.percents[m] * row.total)
                               <= row.total

\* the table with two more rows of mood 3 beside each row: days of three
\* entries, which the table's unique constraint keeps out of the database
ThreeADay ==
    mood_entries (+) [x \in {MoodEntry(e.user_id, e.date, 3, None) :
                                e \in BagToSet(mood_entries)} |-> 2]

\* C21: the statistics of a month hold exactly one row for each day of that
\* month (December ends where January of the next year starts) on which the
\* user has an entry, in ascending date order; its total is the number of the
\* user's entries of that day, counts[m] the number of those with mood m for
\* every m in 1..5, percents[m] is counts[m] * 100 / total to the nearest
\* tenth (percents are held in tenths of a percent).
C21_MonthStats ==
    \A user_id \in DOMAIN users, ym \in StatsMonths :
        /\ MonthStatsAsStated(mood_entries, user_id, ym[1], ym[2])
        /\ MonthStatsAsStated(ThreeADay, user_id, ym[1], ym[2])

\* the statistics of December were returned with a row for each of two days
\* while the user also holds entries on the last day of November and on the
\* first of January, and another user holds an entry in December
C21_Witness ==
    /\ response.op = "get_mood_stats_for_month"
    /\ response.arg.year = 2024 /\ response.arg.month = 12
    /\ Len(response.arg.result) = 2
    /\ response.arg.result[1].date = <<2024, 12, 1>>
    /\ response.arg.result[2].percents[5] = 1000
    /\ has_mood_entry(mood_entries, response.target, <<2024, 11, 30>>)
    /\ has_mood_entry(mood_entries, response.target, <<2025, 1, 1>>)
    /\ response.arg.result =
           get_mood_stats_for_month(mood_entries, response.target, 2024, 12)

-----------------------------------------------------------------------------
(* SpecPassword: user creations over names and candidate passwords that     *)
(* meet each rule of password_check from both sides                         *)

Filler(n) == [i \in 1..n |-> "9"]

NameKo == <<"K", "o">>
NameKoBoAn == NameKoBo \o <<" ", "A", "n">>
PasswordNames == {NameKoBo, NameKo, NameKoBoAn, <<>>, <<" ">>}

PasswordCandidates ==
    { GoodPassword,
      <<"K", "i", "b", "a", "l", "!", "9">>,
      GoodPassword \o Filler(MaxPasswordLen - Len(GoodPassword)),
      GoodPassword \o Filler(MaxPasswordLen - Len(GoodPassword) + 1),
      <<"K", "o", "b", "a", "l", "t", "!", "9">>,
      <<"k", "o", "b", "a", "l", "t", "!", "9">>,
      <<"t", "a", "l", "B", "o", "!", "9", "9">>,
      <<"A", "n", "b", "a", "l", "t", "!", "9">>,
      <<"K", "i", "b", "a", "l", "t", "9", "9">>,
      <<"K", "i", "9", "9", "9", "9", "!", "9">>,
      <<"K", "i", "b", "9", "9", "9", "No", "9">> }

\* top_passwords.txt: absent, or holding these lines
WeakFiles == {{}, {GoodPassword}}

CreateUserWithPassword(token, full_name, email_user, password, weak_passwords) ==
    LET r == create_user_endpoint(users, token, full_name, email_user, password, USER,
                                  weak_passwords)
    IN /\ r.status = 200 => Len(users) < MaxUsers
       /\ users' = r.users
       /\ response' = Respond("create_user_endpoint", r.status, r.target,
                              [full_name |-> full_name, password |-> password,
                               weak_passwords |-> weak_passwords], 0)
       /\ UNCHANGED <<notifications, diaryVars, analysisVars, contentVars>>

DoCreateUserWithPassword ==
    \E full_name \in PasswordNames, password \in PasswordCandidates,
       weak_passwords \in WeakFiles, email_user \in PersonalEmails :
        CreateUserWithPassword(TokenOf(users, 1), full_name, email_user, password,
                               weak_passwords)

NextPassword == DoCreateUserWithPassword

SpecPassword == Init /\ [][NextPassword]_vars

\* the rules of C22, each as the claim words it
PasswordAccepted(password, full_name, weak_passwords) ==
    LET tokens == split(full_name)
        letters == {i \in DOMAIN password : isupper(password[i]) \/ islower(password[i])}
    IN /\ Len(password) \in MinPasswordLen..MaxPasswordLen
       /\ tokens # <<>>
       /\ \A k \in DOMAIN tokens : k <= 2 => ~ Contains(password, tokens[k])
       /\ \E i \in DOMAIN password : password[i] \in SPECIAL_CHARS
       /\ Cardinality(letters) > 2
       /\ password \notin weak_passwords

\* C22: password_check accepts a password exactly when its length is 8 to
\* 40, neither the first nor the second token of the full name occurs in it,
\* it holds a special character, more than 2 letters, and it is not a line of
\* the weak-password file; a name without tokens is rejected.  A creation
\* with a rejected password adds no user row.
C22_PasswordRules ==
    \A full_name \in PasswordNames, password \in PasswordCandidates,
       weak_passwords \in WeakFiles :
        /\ password_check(password, full_name, weak_passwords)
               <=> PasswordAccepted(password, full_name, weak_passwords)
        /\ split(full_name) = <<>> => ~ password_check(password, full_name, weak_passwords)
        /\ \A email_user \in PersonalEmails :
               LET r == create_user_endpoint(users, TokenOf(users, 1), full_name,
                                             email_user, password, USER, weak_passwords)
               IN ~ password_check(password, full_name, weak_passwords)
                      => (r.users = users /\ r.status # 200)

\* a creation by the administrator was refused as a weak password for
\* holding the second token of the name, and nothing else against it
C22_Witness ==
    /\ response.op = "create_user_endpoint"
    /\ response.status = 403
    /\ response.arg.full_name = NameKoBo
    /\ Contains(response.arg.password, <<"B", "o">>)
    /\ ~ Contains(response.arg.password, <<"K", "o">>)
    /\ response.arg.weak_passwords = {}
    /\ password_check(response.arg.password, NameKo, {})

-----------------------------------------------------------------------------
(* The frame of a comment update *)

\* C23: a PATCH of the comments that supplies only comment_work leaves the
\* stored comment_factors as it is, one that supplies only comment_factors
\* leaves comment_work as it is, and the patch never changes a score.
C23_PartialCommentUpdate ==
    \A t \in DOMAIN burnout_tests, data \in PartialCommentUpdates :
        LET r == update_burnout_test_comments(burnout_tests, burnout_tests[t].user_id,
                                              t, data)
        IN /\ r.status = 200
           /\ r.tests[t].total_score = burnout_tests[t].total_score
           /\ r.tests[t].user_id = burnout_tests[t].user_id
           /\ data.comment_factors = None
                 => r.tests[t].comment_factors = burnout_tests[t].comment_factors
           /\ data.comment_work = None
                 => r.tests[t].comment_work = burnout_tests[t].comment_work

-----------------------------------------------------------------------------
(* Concurrent logins: authenticate_user step by step, each request in its   *)
(* own database session.  users and notifications are what is committed; a  *)
(* session reads what is committed and its own writes, and its writes are   *)
(* seen by the others once it commits.  The UPDATE of the user row carries  *)
(* the columns the session changed, with the values it computed.  requests  *)
(* holds, for each request slot, the position of the request in flight, the *)
(* session's copy of the counter, whether the session holds an uncommitted  *)
(* change of the user row, and the number of attempts of the slot that have *)
(* returned False for a wrong password.                                     *)

NoLogin == [pc |-> "idle", login_attempts |-> 0, dirty |-> FALSE, failed |-> 0]

RaceTarget == 2

RECURSIVE failed_up_to(_)
failed_up_to(p) == IF p = 0 THEN 0 ELSE requests[p].failed + failed_up_to(p - 1)

FailedLogins == failed_up_to(Len(requests))

InFlight == Cardinality({p \in DOMAIN requests : requests[p].pc # "idle"})

\* lines 197-204: the SELECT of the user, the active check, the failed
\* verification and the increment of the session's copy
StartLogin(p) ==
    LET uid == get_user_by_email(users, users[RaceTarget].email_corporate)
    IN /\ requests[p].pc = "idle"
       /\ FailedLogins + InFlight < MaxLoginRequests
       /\ ~ pwd_verify(OtherPassword, users[uid].hashed_password)
       /\ requests' =
              IF ~ users[uid].is_active THEN requests
              ELSE [requests EXCEPT ![p].pc = "verified",
                                    ![p].login_attempts = users[uid].login_attempts + 1,
                                    ![p].dirty = TRUE]
       /\ response' = Respond("authenticate_user", 0, 0,
                              IF users[uid].is_active THEN <<"read">> ELSE <<"inactive">>, 0)
       /\ UNCHANGED <<users, notifications, diaryVars, analysisVars, chatVars, news>>

\* line 232 below the threshold: db.commit() writes the counter
CommitAttempt(p) ==
    /\ requests[p].pc = "verified"
    /\ ~ too_many_attempts(requests[p].login_attempts)
    /\ users' = [users EXCEPT ![RaceTarget].login_attempts = requests[p].login_attempts]
    /\ requests' = [requests EXCEPT ![p].pc = "idle", ![p].dirty = FALSE,
                                    ![p].failed = @ + 1]
    /\ response' = Respond("authenticate_user", 0, 0, <<"False">>, 0)
    /\ UNCHANGED <<notifications, diaryVars, analysisVars, chatVars, news>>

\* lines 209-215 and the query of create_notification: the session
\* deactivates its copy and looks for a lockout notification
CheckNotification(p) ==
    /\ requests[p].pc = "verified"
    /\ too_many_attempts(requests[p].login_attempts)
    /\ requests' = [requests EXCEPT ![p].pc =
                       IF \/ has_block_notification(notifications, RaceTarget)
                          \/ BagIn(Notification(RaceTarget, OwnBlockMessage), notifications)
                       THEN "final" ELSE "insert"]
    /\ response' = Respond("authenticate_user", 0, 0, <<"checked">>, 0)
    /\ UNCHANGED <<users, notifications, diaryVars, analysisVars, chatVars, news>>

\* the INSERT and db.commit() of create_notification, which commits the user
\* row with it; uix_user_message refuses a second row of the same text, the
\* session is rolled back and the request ends with the IntegrityError
InsertNotification(p) ==
    /\ requests[p].pc = "insert"
    /\ IF BagIn(Notification(RaceTarget, OwnBlockMessage), notifications)
       THEN /\ requests' = [requests EXCEPT ![p].pc = "idle", ![p].dirty = FALSE]
            /\ response' = Respond("authenticate_user", 500, 0, <<"IntegrityError">>, 0)
            /\ UNCHANGED <<users, notifications>>
       ELSE /\ notifications' =
                   notifications (+) SetToBag({Notification(RaceTarget, OwnBlockMessage)})
            /\ users' = [users EXCEPT
                            ![RaceTarget].login_attempts = requests[p].login_attempts,
                            ![RaceTarget].is_active = FALSE]
            /\ requests' = [requests EXCEPT ![p].pc = "final", ![p].dirty = FALSE]
            /\ response' = Respond("authenticate_user", 0, 0, <<"inserted">>, 1)
    /\ UNCHANGED <<diaryVars, analysisVars, chatVars, news>>

\* line 232 after the lockout branch: db.commit() writes what the session
\* still holds
FinalCommit(p) ==
    /\ requests[p].pc = "final"
    /\ users' = IF requests[p].dirty
                THEN [users EXCEPT
                         ![RaceTarget].login_attempts = requests[p].login_attempts,
                         ![RaceTarget].is_active = FALSE]
                ELSE users
    /\ requests' = [requests EXCEPT ![p].pc = "idle", ![p].dirty = FALSE,
                                    ![p].failed = @ + 1]
    /\ response' = Respond("authenticate_user", 0, 0, <<"False">>, 0)
    /\ UNCHANGED <<notifications, diaryVars, analysisVars, chatVars, news>>

InitLoginRace ==
    /\ users = <<SeedAdmin, SecondUser>>
    /\ notifications = EmptyBag
    /\ response = NoResponse
    /\ mood_entries = EmptyBag
    /\ today = 1
    /\ burnout_tests = <<>>
    /\ cache = <<>>
    /\ llm_calls = 0
    /\ chat_sessions = <<>>
    /\ chat_messages = <<>>
    /\ stream = NoStream
    /\ news = <<>>
    /\ requests = [p \in 1..MaxConcurrent |-> NoLogin]

NextLoginRace ==
    \E p \in 1..MaxConcurrent :
        \/ StartLogin(p)
        \/ CommitAttempt(p)
        \/ CheckNotification(p)
        \/ InsertNotification(p)
        \/ FinalCommit(p)

SpecLoginRace == InitLoginRace /\ [][NextLoginRace]_vars

\* the lockout notification rows of a user
LockoutRows(user_id) ==
    BagCardinality([n \in {x \in BagToSet(notifications) :
                              x.user_id = user_id /\ Contains(x.message, <<BlockPhrase>>)}
                       |-> CopiesIn(n, notifications)])

\* C24: whatever the interleaving of concurrent failed logins to one account,
\* the account holds at most one lockout notification in every state, and
\* when no attempt is in flight after at least 5 failed attempts the account
\* is deactivated.
C24_ConcurrentLockout ==
    /\ LockoutRows(RaceTarget) <= 1
    /\ (InFlight = 0 /\ FailedLogins >= MaxLoginAttempts) => ~ users[RaceTarget].is_active

-----------------------------------------------------------------------------
(* Concurrent group analyses.  The endpoint is a plain def, so the server   *)
(* runs every request on a thread of its pool, and the threads share        *)
(* _group_analysis_cache.  A request is in flight between its steps: the    *)
(* test of line 158, the read of line 162, the computation of line 165 and  *)
(* the write of line 169.  requests holds one record per request made: its  *)
(* position, its filters, the analysis it computed, the body it returned    *)
(* and the rank of its cache write among all cache writes (0: none).        *)

NoAnalysis == [analysis_date |-> 0]

GroupRequest(pc, company, city, status) ==
    [pc |-> pc, company |-> company, city |-> city, status |-> status,
     result |-> NoAnalysis, body |-> NoAnalysis, wrote |-> 0]

\* lines 139-156: the status of the refusal, 0 when the request goes on
group_request_guard(us, token, company, city) ==
    LET guard == get_manager_or_admin(us, token)
        current_user == get_current_user(us, token)
    IN IF guard # 0 THEN guard
       ELSE IF Falsy(company) /\ Falsy(city) THEN except_status("HTTPException")
       ELSE IF /\ us[current_user].role = MANAGER
               /\ ~ Falsy(company) /\ company # us[current_user].company
       THEN except_status("HTTPException")
       ELSE IF /\ us[current_user].role = MANAGER
               /\ ~ Falsy(city) /\ city # us[current_user].city
       THEN except_status("HTTPException")
       ELSE 0

KeyOf(p) == make_cache_key(requests[p].company, requests[p].city)

Writes == Cardinality({p \in DOMAIN requests : requests[p].wrote > 0})

raceFrame == <<users, notifications, diaryVars, burnout_tests, chatVars, news>>

\* lines 139-161: the guards and the test of the cache
StartGroupRequest(token, company, city, force_refresh) ==
    LET refusal == group_request_guard(users, token, company, city)
        pc == IF refusal # 0 THEN "done"
              ELSE IF cache_hit(cache, make_cache_key(company, city), force_refresh)
              THEN "hit"
              ELSE "compute"
    IN /\ Len(requests) < MaxGroupRequests
       /\ requests' = Append(requests, GroupRequest(pc, company, city, refusal))
       /\ response' = IF refusal # 0
                      THEN Respond("analyze_group_burnout", refusal, Len(requests) + 1,
                                   NoAnalysis, 0)
                      ELSE response
       /\ UNCHANGED <<raceFrame, cache, llm_calls>>

\* line 162: return _group_analysis_cache[cache_key]
ServeCache(p) ==
    /\ requests[p].pc = "hit"
    /\ requests' = [requests EXCEPT ![p].pc = "done", ![p].status = 200,
                                    ![p].body = cache[KeyOf(p)]]
    /\ response' = Respond("analyze_group_burnout", 200, p, cache[KeyOf(p)], 0)
    /\ UNCHANGED <<raceFrame, cache, llm_calls>>

\* lines 165-167 and the except clauses
ComputeAnalysis(p, llm) ==
    LET g == generate_group_burnout_analysis(users, burnout_tests, requests[p].company,
                                             requests[p].city, llm, llm_calls)
    IN /\ requests[p].pc = "compute"
       /\ g.llm_called => llm_calls < MaxLlmCalls
       /\ llm_calls' = IF g.llm_called THEN llm_calls + 1 ELSE llm_calls
       /\ IF g.raised # "none"
          THEN /\ requests' = [requests EXCEPT ![p].pc = "done",
                                               ![p].status = except_status(g.raised)]
               /\ response' = Respond("analyze_group_burnout", except_status(g.raised),
                                      p, NoAnalysis, 0)
          ELSE /\ requests' = [requests EXCEPT ![p].pc = "write",
                                               ![p].result = g.analysis]
               /\ UNCHANGED response
       /\ UNCHANGED <<raceFrame, cache>>

\* lines 169-176: the write of the cache and the reply
WriteCache(p) ==
    /\ requests[p].pc = "write"
    /\ cache' = cache_put(cache, KeyOf(p), requests[p].result)
    /\ requests' = [requests EXCEPT ![p].pc = "done", ![p].status = 200,
                                    ![p].body = requests[p].result,
                                    ![p].wrote = Writes + 1]
    /\ response' = Respond("analyze_group_burnout", 200, p, requests[p].result, 0)
    /\ UNCHANGED <<raceFrame, llm_calls>>

RaceTokens == {TokenOf(AnalysisUsers, AdminId), TokenOf(AnalysisUsers, ManagerId)}
RaceCompanies == {CompanyKIT, CompanyKitLab}

DoStartGroupRequest ==
    \E token \in RaceTokens, company \in RaceCompanies, force_refresh \in BOOLEAN :
        StartGroupRequest(token, company, None, force_refresh)

DoServeCache == \E p \in DOMAIN requests : ServeCache(p)

DoComputeAnalysis ==
    \E p \in DOMAIN requests, llm \in {"ok", "fail"} : ComputeAnalysis(p, llm)

DoWriteCache == \E p \in DOMAIN requests : WriteCache(p)

NextGroupRace == DoStartGroupRequest \/ DoServeCache \/ DoComputeAnalysis \/ DoWriteCache

SpecGroupRace == InitAnalysis /\ [][NextGroupRace]_vars

\* the requests that have written the entry of a key
WritersOf(cache_key) ==
    {p \in DOMAIN requests : requests[p].wrote > 0 /\ KeyOf(p) = cache_key}

\* the request whose write of the key happened last
LastWriterOf(cache_key) ==
    CHOOSE p \in WritersOf(cache_key) :
        \A q \in WritersOf(cache_key) : requests[q].wrote <= requests[p].wrote

\* C25: under every interleaving of group-analysis requests, the entry of a
\* key is the analysis computed by the request that wrote the key last (a key
\* nobody wrote has no entry, so a write never touches another key), and the
\* body of every successful reply is the analysis the request computed itself
\* or an entry of its own key, written by another request.
C25_LastWriterWins ==
    /\ DOMAIN cache = {KeyOf(p) : p \in {q \in DOMAIN requests : requests[q].wrote > 0}}
    /\ \A k \in DOMAIN cache : cache[k] = requests[LastWriterOf(k)].result
    /\ \A p \in DOMAIN requests :
           (requests[p].pc = "done" /\ requests[p].status = 200) =>
               \/ requests[p].wrote > 0 /\ requests[p].body = requests[p].result
               \/ /\ requests[p].wrote = 0
                  /\ \E q \in WritersOf(KeyOf(p)) \ {p} :
                         requests[p].body = requests[q].result

\* two requests refreshed the same key and the one that computed first wrote
\* last; a third request was served the entry from the cache
C25_Witness ==
    /\ \A p \in DOMAIN requests : requests[p].pc = "done"
    /\ \E p, q \in DOMAIN requests :
           /\ KeyOf(p) = KeyOf(q)
           /\ requests[p].wrote > requests[q].wrote /\ requests[q].wrote > 0
           /\ requests[p].result.analysis_date < requests[q].result.analysis_date
           /\ cache[KeyOf(p)] = requests[p].result
    /\ \E r \in DOMAIN requests :
           requests[r].status = 200 /\ requests[r].wrote = 0

-----------------------------------------------------------------------------
(* Concurrent logins with the right password *)

\* lines 197-203 and 234: the SELECT of the user, the active check, the
\* verification that succeeds and the reset of the session's copy
StartGoodLogin(p) ==
    LET uid == get_user_by_email(users, users[RaceTarget].email_corporate)
    IN /\ requests[p].pc = "idle"
       /\ pwd_verify(GoodPassword, users[uid].hashed_password)
       /\ requests' =
              IF ~ users[uid].is_active THEN requests
              ELSE [requests EXCEPT ![p].pc = "reset",
                                    ![p].login_attempts = 0,
                                    ![p].dirty = users[uid].login_attempts # 0]
       /\ response' = Respond("authenticate_user", 0, 0,
                              IF users[uid].is_active THEN <<"read">> ELSE <<"inactive">>, 0)
       /\ UNCHANGED <<users, notifications, diaryVars, analysisVars, chatVars, news>>

\* lines 235-237: db.commit() writes the counter the session changed, and the
\* user is returned
CommitReset(p) ==
    /\ requests[p].pc = "reset"
    /\ users' = IF requests[p].dirty
                THEN [users EXCEPT ![RaceTarget].login_attempts = requests[p].login_attempts]
                ELSE users
    /\ requests' = [requests EXCEPT ![p].pc = "idle", ![p].dirty = FALSE]
    /\ response' = Respond("authenticate_user", 0, RaceTarget, <<"user">>, 0)
    /\ UNCHANGED <<notifications, diaryVars, analysisVars, chatVars, news>>

NextLoginReset ==
    \/ NextLoginRace
    \/ \E p \in 1..MaxConcurrent : StartGoodLogin(p) \/ CommitReset(p)

SpecLoginReset == InitLoginRace /\ [][NextLoginReset]_vars

\* C26: a step never activates a deactivated account, never lowers its
\* counter of failed logins, and never authenticates it.
C26_DeactivationPermanent ==
    [][\A i \in DOMAIN users :
           ~ users[i].is_active =>
               /\ i \in DOMAIN users'
               /\ ~ users'[i].is_active
               /\ users'[i].login_attempts >= users[i].login_attempts
               /\ ~ (response'.op = "authenticate_user" /\ response'.target = i)]_vars

-----------------------------------------------------------------------------
(* Deleting a chat session while its stream is in flight.  Row ids are not  *)
(* reused, so a deleted row of chat_sessions_bot keeps its position in      *)
(* chat_sessions as DeletedSession, a row no query finds.  The foreign key  *)
(* of chat_messages_bot.session_id is kept by the database: the INSERT of a *)
(* message whose session is gone raises IntegrityError.                     *)

DeletedSession == ChatSessionBot(0, <<>>, 0)

session_fk_unenforced(sessions, session_id) == TRUE

\* ForeignKey("chat_sessions_bot.id", ondelete="CASCADE") of the message row
session_fk_holds(sessions, session_id) ==
    session_id \in DOMAIN sessions /\ sessions[session_id] # DeletedSession

\* DELETE /ai/sessions/{session_id}: cascade="all, delete-orphan" and
\* ondelete="CASCADE" remove the messages of the session with it
delete_session(us, sessions, stored, token, session_id) ==
    LET current_user == get_current_user(us, token)
    IN IF current_user = 0
       THEN [sessions |-> sessions, messages |-> stored, status |-> 401]
       ELSE IF ~ owned_session(sessions, session_id, current_user)
       THEN [sessions |-> sessions, messages |-> stored, status |-> 404]
       ELSE [sessions |-> [sessions EXCEPT ![session_id] = DeletedSession],
             messages |-> SelectSeq(stored, LAMBDA msg : msg.session_id # session_id),
             status |-> 204]

DeleteSession(token, session_id) ==
    LET r == delete_session(users, chat_sessions, chat_messages, token, session_id)
    IN /\ chat_sessions' = r.sessions
       /\ chat_messages' = r.messages
       /\ response' = Respond("delete_session", r.status, session_id, <<stream.pc>>, 0)
       /\ UNCHANGED <<users, notifications, diaryVars, analysisVars, stream, news,
                      requests>>

\* the finally clause over a database that keeps the foreign key: the save
\* fails when the session of the stream is gone
StreamFinallyChecked(db_ok) ==
    StreamFinally(db_ok /\ session_fk_holds(chat_sessions, stream.session_id))

DoDeleteSession ==
    \E token \in ChatTokens, session_id \in 1..(MaxSessions + 1) :
        DeleteSession(token, session_id)

DoStreamFinallyChecked == \E db_ok \in BOOLEAN : StreamFinallyChecked(db_ok)

NextChatDelete ==
    DoChat \/ DoStreamChunk \/ StreamFail \/ DoStreamFinallyChecked \/ DoDeleteSession

SpecChatDelete == InitChat /\ [][NextChatDelete]_vars

\* C27: every stored message refers to a session that exists and belongs to
\* the user of the message, also when sessions are deleted while a stream is
\* in flight; a stream that has ended ends with [DONE], whether the save of
\* the assistant message failed or not.
C27_NoOrphanMessage ==
    /\ \A i \in DOMAIN chat_messages :
           /\ session_fk_holds(chat_sessions, chat_messages[i].session_id)
           /\ chat_sessions[chat_messages[i].session_id].user_id = chat_messages[i].user_id
    /\ stream.pc = "done" =>
           /\ stream.events # <<>>
           /\ stream.events[Len(stream.events)] = DoneEvent
           /\ ~ session_fk_holds(chat_sessions, stream.session_id) =>
                  \A i \in DOMAIN chat_messages :
                      chat_messages[i].session_id # stream.session_id

\* the owner deleted the session while its stream was yielding; the stream
\* had text to save, the save failed and the stream ended
C27_Witness ==
    /\ response.op = "delete_session" /\ response.status = 204
    /\ response.arg = <<"streaming">>
    /\ response.target = stream.session_id
    /\ stream.pc = "done"
    /\ stream.assistant_response # <<>>
    /\ stream.save_error

-----------------------------------------------------------------------------
(* Failed group analyses and the cache *)

\* C28: a group-analysis request that does not succeed leaves the cache as it
\* was (no entry is added, none is replaced or removed, even with
\* force_refresh), and after it every entry is still what a request of its
\* key without force_refresh is answered, without a call of the LLM.
C28_FailedStep ==
    (response'.op = "analyze_group_burnout" /\ response'.status # 200)
    => /\ cache' = cache
       /\ \A k \in DOMAIN cache :
              LET r == analyze_group_burnout(users', burnout_tests', cache', llm_calls',
                                             TokenOf(users', AdminId), k[1], k[2],
                                             FALSE, "fail")
              IN r.status = 200 /\ r.body = cache[k] /\ ~ r.llm_called

C28_FailedAnalysisKeepsCache == [][C28_FailedStep]_vars

\* a forced refresh of a cached key failed after the LLM was called
C28_Witness ==
    /\ response.op = "analyze_group_burnout"
    /\ response.status \in {404, 500}
    /\ response.arg.force_refresh
    /\ response.arg.llm_called
    /\ make_cache_key(response.arg.company, response.arg.city) \in DOMAIN cache

-----------------------------------------------------------------------------
(* Reading the news *)

\* crud.get_news with the default skip and limit: the ids of the active
\* items, the newest first
RECURSIVE get_news_from(_, _)
get_news_from(items, i) ==
    IF i = 0 THEN <<>>
    ELSE (IF items[i].is_active THEN <<i>> ELSE <<>>) \o get_news_from(items, i - 1)

get_news(items) == get_news_from(items, Len(items))

\* GET /news/{news_id}: the status of the reply
read_news_by_id(items, news_id) ==
    IF get_news_by_id(items, news_id) = 0 THEN 404 ELSE 200

ReadNews ==
    /\ response' = Respond("read_news", 200, 0, get_news(news), 0)
    /\ UNCHANGED <<users, notifications, diaryVars, analysisVars, chatVars, news,
                   requests>>

ReadNewsById(news_id) ==
    /\ response' = Respond("read_news_by_id", read_news_by_id(news, news_id), news_id,
                           <<>>, 0)
    /\ UNCHANGED <<users, notifications, diaryVars, analysisVars, chatVars, news,
                   requests>>

DoReadNewsById == \E news_id \in 1..(Len(news) + 1) : ReadNewsById(news_id)

NextNewsReads ==
    DoCreateNews \/ DoUpdateNews \/ DoDeleteNews \/ ReadNews \/ DoReadNewsById

SpecNewsReads == InitNews /\ [][NextNewsReads]_vars

\* C29: a request never changes an item that is inactive (its flag, its
\* title and its content stay), the list never shows it, the detail read of
\* it is answered 404, and so is a PATCH or DELETE of it by an administrator.
C29_Step ==
    \A i \in DOMAIN news :
        ~ news[i].is_active =>
            /\ i \in DOMAIN news' /\ news'[i] = news[i]
            /\ response'.op = "read_news" =>
                   \A j \in DOMAIN response'.arg : response'.arg[j] # i
            /\ (response'.op = "read_news_by_id" /\ response'.target = i) =>
                   response'.status = 404
            /\ (/\ response'.op \in {"update_news", "delete_news"}
                /\ response'.target = i
                /\ response'.arg.caller # 0
                /\ users[response'.arg.caller].role = ADMIN) =>
                   response'.status = 404

C29_SoftDeleteIrreversible == [][C29_Step]_vars

\* the author's PATCH of an item that a PATCH had made inactive is answered 404
C29_Witness ==
    /\ response.op = "update_news" /\ response.status = 404
    /\ response.target \in DOMAIN news
    /\ ~ news[response.target].is_active
    /\ news[response.target].title = <<"t2">>
    /\ response.arg.caller = news[response.target].created_by
    /\ news[response.target].content = OtherNewsContent

-----------------------------------------------------------------------------
(* The group a manager is shown *)

\* C30: in every group analysis returned to a manager, each employee of the
\* analysis has the manager's company when the request named a company, and
\* the manager's city when it named a city only.
C30_ManagerSeesOwnGroup ==
    LET rq == response.arg
    IN (/\ response.op = "analyze_group_burnout"
        /\ response.status = 200
        /\ rq.caller # 0
        /\ users[rq.caller].role = MANAGER)
       => \A e \in rq.body.employees :
              IF ~ Falsy(rq.company)
              THEN users[e].company = users[rq.caller].company
              ELSE users[e].city = users[rq.caller].city

====
